---- MODULE Spec2Model ----
(***************************************************************************)
(* Model of portfolio_ai: the rebalancer (core/rebalancer.py) and the      *)
(* analyzer (core/analyzer.py).                                            *)
(*                                                                         *)
(* Numbers.  The program computes with Python floats.  The model computes  *)
(* with exact rationals, a pair <<n, d>> in lowest terms with d > 0, so    *)
(* every formula below is a statement about the arithmetic the code        *)
(* writes down, free of rounding error.  Division by zero is not a value:  *)
(* the step that would divide by zero raises instead.                      *)
(***************************************************************************)
EXTENDS Integers, Sequences, FiniteSets, TLC

(***************************************************************************)
(* Bounds of the model.                                                    *)
(***************************************************************************)
\* Longest holdings tuple handed to rebalance / longest portfolio analysed.
MaxHoldings == 2
\* Longest series handed to max_drawdown and to beta, longest history.
MaxSeries == 3

(***************************************************************************)
(* Exact rational arithmetic standing in for float arithmetic.             *)
(***************************************************************************)
IAbs(n) == IF n < 0 THEN -n ELSE n

RECURSIVE GCD(_, _)
GCD(a, b) == IF b = 0 THEN a ELSE GCD(b, a % b)

\* n/d in lowest terms, d # 0.
Frac(n, d) ==
    LET s == IF d < 0 THEN -1 ELSE 1
        g == GCD(IAbs(n), IAbs(d))
    IN  <<(s * n) \div g, (s * d) \div g>>

R(n) == <<n, 1>>

RAdd(a, b) == Frac(a[1] * b[2] + b[1] * a[2], a[2] * b[2])
RSub(a, b) == Frac(a[1] * b[2] - b[1] * a[2], a[2] * b[2])
RMul(a, b) == Frac(a[1] * b[1], a[2] * b[2])
\* a / b, for b # 0 only: the caller guards the zero divisor.
RDiv(a, b) == Frac(a[1] * b[2], a[2] * b[1])
RNeg(a) == <<-a[1], a[2]>>
RAbs(a) == <<IAbs(a[1]), a[2]>>
RLe(a, b) == a[1] * b[2] <= b[1] * a[2]
RLt(a, b) == a[1] * b[2] < b[1] * a[2]
RIsZero(a) == a[1] = 0
\* math.floor: the greatest integer <= a (\div rounds down for d > 0).
RFloor(a) == a[1] \div a[2]

(***************************************************************************)
(* State.                                                                  *)
(***************************************************************************)
VARIABLES
    \* rebalance(): its keyword arguments
    holdings, target_weights, total_value, tolerance, tax_rate,
    \* rebalance(): its locals and its outcome
    i, orders, total_buy, total_sell, estimated_tax, pc, result,
    \* PortfolioAnalyzer.analyze(): portfolio, market data, locals, outcome
    portfolio, price_of, hist_of, g, holdings_data, apc, analysis,
    \* PortfolioAnalyzer.analyze(): the tickers whose history it has requested
    requested,
    \* utils/metrics.py: one call of one function, its position and its value
    mcall, mpc, mret,
    \* MarketDataProvider: _cache, the constructor calls that succeeded per
    \* symbol, the number of calls served, and the last call with its outcome
    cache, constructed, ncalls, last,
    \* run_rebalance: its options, its position, the files it has written
    cmd, cpc, written,
    \* generate_insights: its arguments and the collaborator's behaviour, its
    \* position, the value returned, the clients built and the API calls made
    icall, ipc, insights, clients, api_calls,
    \* load_portfolio: the frame read from the file, its position, the error
    \* raised, the frame validate_dataframe returned, the holdings loaded
    df, lpc, lerr, validated, loaded

rvars == <<holdings, target_weights, total_value, tolerance, tax_rate,
           i, orders, total_buy, total_sell, estimated_tax, pc, result>>
avars == <<portfolio, price_of, hist_of, g, holdings_data, apc, analysis, requested>>
mvars == <<mcall, mpc, mret>>
pvars == <<cache, constructed, ncalls, last>>
cvars == <<cmd, cpc, written>>
ivars == <<icall, ipc, insights, clients, api_calls>>
lvars == <<df, lpc, lerr, validated, loaded>>
xvars == <<cvars, ivars, lvars>>
vars == <<rvars, avars, mvars, pvars, xvars>>

None == "None"
Tickers == {"A", "B"}

\* The variables of a metrics call while no metrics function is called
\* on its own.
MetricsIdle ==
    /\ mcall = <<>>
    /\ mpc = "idle"
    /\ mret = <<>>

\* The provider's variables while no provider is exercised on its own.
ProviderIdle ==
    /\ cache = <<>>
    /\ constructed = <<>>
    /\ ncalls = 0
    /\ last = <<>>

\* The command's variables while no command runs.
CommandIdle ==
    /\ cmd = <<>>
    /\ cpc = "idle"
    /\ written = {}

\* The variables of generate_insights while it is not called.
InsightsIdle ==
    /\ icall = <<>>
    /\ ipc = "idle"
    /\ insights = None
    /\ clients = 0
    /\ api_calls = 0

\* The loader's variables while no file is loaded.
LoaderIdle ==
    /\ df = <<>>
    /\ lpc = "idle"
    /\ lerr = None
    /\ validated = None
    /\ loaded = None

(***************************************************************************)
(* core/rebalancer.py                                                      *)
(***************************************************************************)
\* Variant of TargetPct: a ticker absent from the map keeps its current weight.
TargetPct_DefaultCurrent(h) ==
    IF h.ticker \in DOMAIN target_weights THEN target_weights[h.ticker] ELSE h.weight_pct

\* target_weights.get(holding.ticker, 0.0)
TargetPct(h) ==
    IF h.ticker \in DOMAIN target_weights THEN target_weights[h.ticker] ELSE R(0)

DiffPct(h) == RSub(TargetPct(h), h.weight_pct)

\* Variant of InBand: a deviation equal to the tolerance is out of band.
InBand_Strict(h) == RLt(RAbs(DiffPct(h)), tolerance)

\* abs(diff_pct) <= tolerance: the holding is skipped
InBand(h) == RLe(RAbs(DiffPct(h)), tolerance)

\* Variant of TargetValue: the total is brought up to date with the orders
\* emitted so far.
TargetValue_AfterOrders(h) ==
    RMul(RAdd(total_value, RSub(total_buy, total_sell)), RDiv(TargetPct(h), R(100)))

\* total_value * (target_pct / 100)
TargetValue(h) == RMul(total_value, RDiv(TargetPct(h), R(100)))

\* Variant of DiffValue: the operands of the subtraction swapped.
DiffValue_Swapped(h) == RSub(h.market_value, TargetValue(h))

DiffValue(h) == RSub(TargetValue(h), h.market_value)

\* Variant of Quantity: the share count rounded to the nearest integer.
Quantity_Nearest(h) ==
    RFloor(RAdd(RDiv(RAbs(DiffValue(h)), h.current_price), Frac(1, 2)))

\* Variant of Quantity: the share count rounded up instead of down.
Quantity_RoundUp(h) == -RFloor(RNeg(RDiv(RAbs(DiffValue(h)), h.current_price)))

\* int(math.floor(abs(diff_value) / holding.current_price)), current_price # 0
Quantity(h) == RFloor(RDiv(RAbs(DiffValue(h)), h.current_price))

\* quantity * holding.current_price
OrderValue(h) == RMul(R(Quantity(h)), h.current_price)

GainPerShare(h) == RSub(h.current_price, h.avg_cost)

\* Variant of TaxAccrual: the tax is accrued on losses as well as on gains.
TaxAccrual_NoGainTest(h) ==
    IF RLt(R(0), tax_rate)
    THEN RMul(RMul(R(Quantity(h)), GainPerShare(h)), tax_rate)
    ELSE R(0)

\* the amount added to estimated_tax by a SELL of holding h
TaxAccrual(h) ==
    IF RLt(R(0), GainPerShare(h)) /\ RLt(R(0), tax_rate)
    THEN RMul(RMul(R(Quantity(h)), GainPerShare(h)), tax_rate)
    ELSE R(0)

\* Variant of BuyOrder: one share more than the delta holds.
BuyOrder_ExtraShare(h) ==
    [ticker |-> h.ticker, name |-> h.name, action |-> "BUY",
     quantity |-> Quantity(h) + 1, current_price |-> h.current_price,
     estimated_cost |-> OrderValue(h)]

BuyOrder(h) ==
    [ticker |-> h.ticker, name |-> h.name, action |-> "BUY",
     quantity |-> Quantity(h), current_price |-> h.current_price,
     estimated_cost |-> OrderValue(h)]

\* Variant of SellOrder: the proceeds recorded with a positive sign.
SellOrder_PositiveCost(h) ==
    [ticker |-> h.ticker, name |-> h.name, action |-> "SELL",
     quantity |-> Quantity(h), current_price |-> h.current_price,
     estimated_cost |-> OrderValue(h)]

SellOrder(h) ==
    [ticker |-> h.ticker, name |-> h.name, action |-> "SELL",
     quantity |-> Quantity(h), current_price |-> h.current_price,
     estimated_cost |-> RNeg(OrderValue(h))]

\* Variant of RebalanceResult: net_cost adds the proceeds instead of
\* subtracting them.
RebalanceResult_NetAdds ==
    [orders |-> orders, total_buy_cost |-> total_buy,
     total_sell_proceeds |-> total_sell,
     net_cost |-> RAdd(total_buy, total_sell),
     estimated_tax |-> estimated_tax]

RebalanceResult ==
    [orders |-> orders, total_buy_cost |-> total_buy,
     total_sell_proceeds |-> total_sell,
     net_cost |-> RSub(total_buy, total_sell),
     estimated_tax |-> estimated_tax]

\* The loop is at holding i.
AtHolding == pc = "loop" /\ i <= Len(holdings)

Inputs == <<holdings, target_weights, total_value, tolerance, tax_rate>>

\* line 52-53: within the band, continue
SkipInBand ==
    /\ AtHolding
    /\ InBand(holdings[i])
    /\ i' = i + 1
    /\ UNCHANGED <<Inputs, orders, total_buy, total_sell, estimated_tax, pc, result, avars, mvars, pvars, xvars>>

\* line 58: the division by a zero current_price raises
RaiseZeroPrice ==
    /\ AtHolding
    /\ ~InBand(holdings[i])
    /\ RIsZero(holdings[i].current_price)
    /\ pc' = "raised"
    /\ UNCHANGED <<Inputs, i, orders, total_buy, total_sell, estimated_tax, result, avars, mvars, pvars, xvars>>

\* line 59-60: a delta below one share, continue
SkipSubShare ==
    /\ AtHolding
    /\ ~InBand(holdings[i])
    /\ ~RIsZero(holdings[i].current_price)
    /\ Quantity(holdings[i]) = 0
    /\ i' = i + 1
    /\ UNCHANGED <<Inputs, orders, total_buy, total_sell, estimated_tax, pc, result, avars, mvars, pvars, xvars>>

\* line 62-74
EmitBuy ==
    /\ AtHolding
    /\ ~InBand(holdings[i])
    /\ ~RIsZero(holdings[i].current_price)
    /\ Quantity(holdings[i]) # 0
    /\ RLt(R(0), DiffValue(holdings[i]))
    /\ orders' = Append(orders, BuyOrder(holdings[i]))
    /\ total_buy' = RAdd(total_buy, OrderValue(holdings[i]))
    /\ i' = i + 1
    /\ UNCHANGED <<Inputs, total_sell, estimated_tax, pc, result, avars, mvars, pvars, xvars>>

\* Variant of EmitSell: the order is put in front of the list.
EmitSell_InFront ==
    /\ AtHolding
    /\ ~InBand(holdings[i])
    /\ ~RIsZero(holdings[i].current_price)
    /\ Quantity(holdings[i]) # 0
    /\ ~RLt(R(0), DiffValue(holdings[i]))
    /\ estimated_tax' = RAdd(estimated_tax, TaxAccrual(holdings[i]))
    /\ orders' = <<SellOrder(holdings[i])>> \o orders
    /\ total_sell' = RAdd(total_sell, OrderValue(holdings[i]))
    /\ i' = i + 1
    /\ UNCHANGED <<Inputs, total_buy, pc, result, avars, mvars, pvars, xvars>>

\* line 75-91
EmitSell ==
    /\ AtHolding
    /\ ~InBand(holdings[i])
    /\ ~RIsZero(holdings[i].current_price)
    /\ Quantity(holdings[i]) # 0
    /\ ~RLt(R(0), DiffValue(holdings[i]))
    /\ estimated_tax' = RAdd(estimated_tax, TaxAccrual(holdings[i]))
    /\ orders' = Append(orders, SellOrder(holdings[i]))
    /\ total_sell' = RAdd(total_sell, OrderValue(holdings[i]))
    /\ i' = i + 1
    /\ UNCHANGED <<Inputs, total_buy, pc, result, avars, mvars, pvars, xvars>>

\* line 93-99
Return ==
    /\ pc = "loop"
    /\ i > Len(holdings)
    /\ pc' = "done"
    /\ result' = RebalanceResult
    /\ UNCHANGED <<Inputs, i, orders, total_buy, total_sell, estimated_tax, avars, mvars, pvars, xvars>>

(***************************************************************************)
(* Inputs of rebalance enumerated by the model.  Monetary and quantity     *)
(* fields are non-negative.  weight_pct and market_value are independent   *)
(* fields of HoldingAnalysis: some cases agree with a total_value of 20,   *)
(* some do not.                                                            *)
(***************************************************************************)
\* <<avg_cost, current_price, weight_pct, market_value>>
HoldingCases ==
    {<<R(2), Frac(5, 2), R(0), R(0)>>,     \* nothing held yet
     <<R(2), Frac(5, 2), R(75), R(15)>>,   \* priced above its cost
     <<R(3), R(2), R(75), R(15)>>,         \* priced below its cost
     <<R(3), R(3), R(25), R(5)>>,          \* priced at its cost
     <<R(2), R(0), R(25), R(5)>>,          \* zero price, a value recorded
     <<R(2), R(0), R(0), R(0)>>,           \* zero price, zero value
     <<R(3), R(2), R(75), R(5)>>,          \* weight above the value's share
     <<R(2), Frac(5, 2), R(25), R(15)>>}   \* weight below the value's share

HoldingAnalysis(ticker, name, quantity, avg_cost, current_price, market_value, weight_pct) ==
    [ticker |-> ticker, name |-> name, quantity |-> quantity,
     avg_cost |-> avg_cost, current_price |-> current_price,
     market_value |-> market_value, weight_pct |-> weight_pct,
     return_pct |-> RMul(RDiv(RSub(current_price, avg_cost), avg_cost), R(100))]

HoldingInputs ==
    {HoldingAnalysis(t, 0,
                     IF RIsZero(c[2]) THEN R(1) ELSE RDiv(c[4], c[2]),
                     c[1], c[2], c[4], c[3]) :
        t \in Tickers, c \in HoldingCases}

\* target weight maps: a ticker is absent from the map or has a percentage
TargetWeightInputs ==
    {<<>>,
     [t \in {"A"} |-> R(30)],
     [t \in Tickers |-> R(50)],
     [t \in Tickers |-> IF t = "A" THEN R(30) ELSE R(50)]}
TotalValues == {R(0), R(20)}
Tolerances == {R(5), R(25)}
TaxRates == {Frac(-1, 5), R(0), Frac(1, 5)}

\* The analyzer's variables while no analysis runs.
AnalyzerIdle ==
    /\ portfolio = <<>>
    /\ price_of = <<>>
    /\ hist_of = <<>>
    /\ g = 0
    /\ holdings_data = <<>>
    /\ apc = "idle"
    /\ analysis = None
    /\ requested = {}

\* The state of rebalance after line 43-46, for given arguments.
RebalanceEntry ==
    /\ i = 1
    /\ orders = <<>>
    /\ total_buy = R(0)
    /\ total_sell = R(0)
    /\ estimated_tax = R(0)
    /\ pc = "loop"
    /\ result = None

\* A call of rebalance with any of the enumerated arguments; the display
\* name of the k-th holding is k.
Init ==
    /\ \E n \in 0..MaxHoldings : \E f \in [1..n -> HoldingInputs] :
          holdings = [k \in 1..n |-> [f[k] EXCEPT !.name = k]]
    /\ target_weights \in TargetWeightInputs
    /\ total_value \in TotalValues
    /\ tolerance \in Tolerances
    /\ tax_rate \in TaxRates
    /\ RebalanceEntry
    /\ AnalyzerIdle
    /\ MetricsIdle
    /\ ProviderIdle
    /\ CommandIdle
    /\ InsightsIdle
    /\ LoaderIdle

Next ==
    \/ SkipInBand
    \/ RaiseZeroPrice
    \/ SkipSubShare
    \/ EmitBuy
    \/ EmitSell
    \/ Return

Spec == Init /\ [][Next]_vars

(***************************************************************************)
(* core/analyzer.py, utils/metrics.py, core/models.py                      *)
(*                                                                         *)
(* The market-data collaborator answers per ticker: price_of[t] is the     *)
(* answer of get_current_price (a price or None), hist_of[t] the series    *)
(* answered by get_historical_prices, its r-th entry being the close of    *)
(* the r-th day of the period.  The sector string is carried nowhere: no   *)
(* computation reads it.                                                   *)
(***************************************************************************)
Benchmark == "SPY"

\* Holding.total_cost
HoldingTotalCost(h) == RMul(h.quantity, h.avg_cost)

RECURSIVE Sum(_)
\* sum(seq), added left to right
Sum(seq) ==
    IF seq = <<>> THEN R(0)
    ELSE RAdd(Sum(SubSeq(seq, 1, Len(seq) - 1)), seq[Len(seq)])

\* Portfolio.total_cost
PortfolioTotalCost ==
    Sum([k \in 1..Len(portfolio) |-> HoldingTotalCost(portfolio[k])])

\* _HoldingData built for a holding whose price is known
HoldingData(h, price) ==
    [ticker |-> h.ticker, name |-> h.name, quantity |-> h.quantity,
     avg_cost |-> h.avg_cost, current_price |-> price,
     market_value |-> RMul(h.quantity, price)]

CostOf(d) == RMul(d.avg_cost, d.quantity)

\* total_value = sum(h.market_value for h in holdings_data)
AnalysisTotalValue ==
    Sum([k \in 1..Len(holdings_data) |-> holdings_data[k].market_value])

\* Variant of AnalysisTotalCost: the nominal cost of the whole portfolio.
AnalysisTotalCost_WholePortfolio ==
    Sum([k \in 1..Len(portfolio) |-> HoldingTotalCost(portfolio[k])])

\* total_cost = sum(h.avg_cost * h.quantity for h in holdings_data)
AnalysisTotalCost ==
    Sum([k \in 1..Len(holdings_data) |-> CostOf(holdings_data[k])])

\* Variant of WeightPct: the weight taken against the cost basis.
WeightPct_OfCost(d) ==
    IF RLt(R(0), AnalysisTotalValue)
    THEN RMul(RDiv(d.market_value, AnalysisTotalCost), R(100))
    ELSE R(0)

\* (h.market_value / total_value) * 100 if total_value > 0 else 0
WeightPct(d) ==
    IF RLt(R(0), AnalysisTotalValue)
    THEN RMul(RDiv(d.market_value, AnalysisTotalValue), R(100))
    ELSE R(0)

\* the tuple of HoldingAnalysis built from holdings_data
HoldingsAnalysis ==
    [k \in 1..Len(holdings_data) |->
        LET d == holdings_data[k]
        IN  HoldingAnalysis(d.ticker, d.name, d.quantity, d.avg_cost,
                            d.current_price, d.market_value, WeightPct(d))]

(***************************************************************************)
(* utils/metrics.py.  A float that is not a number is the pair NaN; every  *)
(* other float is a rational in lowest terms.                              *)
(***************************************************************************)
NaN == <<0, 0>>

\* metrics.total_return, line 11-12: the guard that raises ValueError
TotalReturnRaises_BelowOne(initial) == RLt(initial, R(1))
TotalReturnRaises(initial) == RLe(initial, R(0))

\* metrics.total_return, for initial > 0
TotalReturn(initial, final) == RMul(RDiv(RSub(final, initial), initial), R(100))

\* metrics.annualized_return, line 18-19: the guard that raises ValueError
AnnualizedReturnRaises(years) == RLe(years, R(0))

RECURSIVE RPow(_, _)
\* a ** n for an integer n >= 0
RPow(a, n) == IF n = 0 THEN R(1) ELSE RMul(RPow(a, n - 1), a)

\* metrics.annualized_return, line 20, for years > 0 whose inverse is an
\* integer (the exponent 1 / years)
AnnualizedReturn(total_return_pct, years) ==
    RMul(RSub(RPow(RAdd(R(1), RDiv(total_return_pct, R(100))),
                   RFloor(RDiv(R(1), years))),
              R(1)),
         R(100))

RMax2(a, b) == IF RLe(a, b) THEN b ELSE a
RMin2(a, b) == IF RLe(a, b) THEN a ELSE b

RECURSIVE SeqMax(_)
\* Series.max of a non-empty series
SeqMax(s) ==
    IF Len(s) = 1 THEN s[1]
    ELSE RMax2(SeqMax(SubSeq(s, 1, Len(s) - 1)), s[Len(s)])

RECURSIVE SeqMin(_)
\* Series.min of a non-empty series
SeqMin(s) ==
    IF Len(s) = 1 THEN s[1]
    ELSE RMin2(SeqMin(SubSeq(s, 1, Len(s) - 1)), s[Len(s)])

\* Series.cummax: the t-th entry is the greatest of the first t prices
CumMax_WholeSeries(prices) == [t \in 1..Len(prices) |-> SeqMax(prices)]
CumMax(prices) == [t \in 1..Len(prices) |-> SeqMax(SubSeq(prices, 1, t))]

\* metrics.max_drawdown, line 56-57: drawdown = (prices - cummax) / cummax,
\* for prices >= 0; where the running maximum is 0 the entry is 0 / 0
Drawdown(prices) ==
    [t \in 1..Len(prices) |->
        IF RIsZero(CumMax(prices)[t]) THEN NaN
        ELSE RDiv(RSub(prices[t], CumMax(prices)[t]), CumMax(prices)[t])]

\* metrics.max_drawdown; Series.min skips the entries that are nan and is
\* nan when every entry is
MaxDrawdown(prices) ==
    IF prices = <<>> THEN R(0)
    ELSE LET numbers == SelectSeq(Drawdown(prices), LAMBDA x : x # NaN)
         IN  IF numbers = <<>> THEN NaN ELSE RMul(SeqMin(numbers), R(100))

\* Series.mean of a non-empty series
Mean(s) == RDiv(Sum(s), R(Len(s)))

\* np.cov(p, b)[0, 1] for two series of one length n >= 2: the sum of the
\* products of the deviations from the means, divided by n - 1 (ddof = 1)
Covariance(p, b) ==
    RDiv(Sum([k \in 1..Len(p) |->
                 RMul(RSub(p[k], Mean(p)), RSub(b[k], Mean(b)))]),
         R(Len(p) - 1))

\* np.cov(p, b)[1, 1]: the sample variance of b
Variance_Population(b) == RMul(Covariance(b, b), Frac(Len(b) - 1, Len(b)))
Variance(b) == Covariance(b, b)

\* min(len(portfolio_returns), len(benchmark_returns))
MinLen(portfolio_returns, benchmark_returns) ==
    IF Len(portfolio_returns) <= Len(benchmark_returns)
    THEN Len(portfolio_returns) ELSE Len(benchmark_returns)

\* metrics.beta.  With one observation np.cov divides by n - 1 = 0: every
\* entry of the matrix is nan, nan == 0 is false, and nan / nan is returned.
Beta(portfolio_returns, benchmark_returns) ==
    IF portfolio_returns = <<>> \/ benchmark_returns = <<>> THEN R(0)
    ELSE LET min_len == MinLen(portfolio_returns, benchmark_returns)
             p == SubSeq(portfolio_returns, 1, min_len)
             b == SubSeq(benchmark_returns, 1, min_len)
         IN  IF min_len = 1 THEN NaN
             ELSE IF RIsZero(Variance(b)) THEN R(0)
             ELSE RDiv(Covariance(p, b), Variance(b))

\* np.sqrt(252), line 33 and 47: the trading days of a year
TradingDays == 252

\* risk_free_rate = 0.02, line 40 and 83
RiskFreeRate == Frac(1, 50)

\* The square root of a rational q >= 0, kept as the triple <<n, d, 2>> of
\* q = n / d in lowest terms; sign is 1 or -1 and is carried by n.
SignedSqrt(sign, q) == IF RIsZero(q) THEN R(0) ELSE <<sign * q[1], q[2], 2>>

\* x * 100 for a float x: nan, a rational or a square root
Times100(x) ==
    IF x = NaN THEN NaN
    ELSE IF Len(x) = 3
         THEN SignedSqrt(IF x[1] < 0 THEN -1 ELSE 1,
                         RMul(<<IAbs(x[1]), x[2]>>, R(10000)))
    ELSE RMul(x, R(100))

\* metrics.volatility with annualize = True; Series.std (ddof = 1) of one
\* value is nan
Volatility(returns) ==
    IF returns = <<>> THEN R(0)
    ELSE IF Len(returns) = 1 THEN NaN
    ELSE SignedSqrt(1, RMul(Variance(returns), R(TradingDays)))

\* metrics.sharpe_ratio; nan < 1e-10 is false, and a number divided by nan
\* is nan.  The quotient of the excess return by a square root is the
\* signed square root of the quotient of the squares.
SharpeRatio(returns) ==
    IF returns = <<>> THEN R(0)
    ELSE IF Volatility(returns) = NaN THEN NaN
    ELSE IF Volatility(returns) = R(0) THEN R(0)
    ELSE LET excess == RSub(RMul(Mean(returns), R(TradingDays)), RiskFreeRate)
         IN  SignedSqrt(IF excess[1] < 0 THEN -1 ELSE 1,
                        RDiv(RMul(excess, excess),
                             RMul(Variance(returns), R(TradingDays))))

\* metrics.alpha
Alpha(portfolio_return, benchmark_return, beta_value) ==
    IF beta_value = NaN THEN NaN
    ELSE RSub(portfolio_return,
              RAdd(RiskFreeRate,
                   RMul(beta_value, RSub(benchmark_return, RiskFreeRate))))

\* Variant of AnnualizedReturnOneYear: a horizon of half a year.
AnnualizedReturnOneYear_HalfYear(total_return_pct) ==
    AnnualizedReturn(total_return_pct, Frac(1, 2))

\* metrics.annualized_return with years = 1.0
AnnualizedReturnOneYear(total_return_pct) ==
    RMul(RSub(RAdd(R(1), RDiv(total_return_pct, R(100))), R(1)), R(100))

\* all_prices: the tickers of the analysed holdings with a non-empty history
AllPrices == {holdings_data[k].ticker : k \in 1..Len(holdings_data)}
                 \cap {t \in Tickers : hist_of[t] # <<>>}

\* weights: one entry per analysed holding whose ticker is in all_prices
WeightsLen == Cardinality({k \in 1..Len(holdings_data) : holdings_data[k].ticker \in AllPrices})

\* DataFrame.dot(weights) raises when the table has a different number of
\* columns than weights has entries; every column of a non-empty all_prices
\* has a row, so price_df is not empty.
DotShapeMismatch == AllPrices # {} /\ WeightsLen # Cardinality(AllPrices)

RECURSIVE ColumnsUpTo(_)
\* the keys of all_prices after the first n holdings, in insertion order
ColumnsUpTo(n) ==
    IF n = 0 THEN <<>>
    ELSE LET c == ColumnsUpTo(n - 1)
             t == holdings_data[n].ticker
         IN  IF hist_of[t] # <<>> /\ \A j \in 1..Len(c) : c[j] # t
             THEN Append(c, t) ELSE c

\* the columns of price_df
Columns == ColumnsUpTo(Len(holdings_data))

\* Variant of Weights: the kept weights scaled to add up to 1.
Weights_Renormalised ==
    LET kept == SelectSeq(HoldingsAnalysis, LAMBDA h : h.ticker \in AllPrices)
        total == Sum([j \in 1..Len(kept) |-> kept[j].weight_pct])
    IN  [j \in 1..Len(kept) |->
            IF RIsZero(total) THEN R(0) ELSE RDiv(kept[j].weight_pct, total)]

\* weights = [h.weight_pct / 100 for h in holdings_analysis
\*            if h.ticker in all_prices]
Weights ==
    LET kept == SelectSeq(HoldingsAnalysis, LAMBDA h : h.ticker \in AllPrices)
    IN  [j \in 1..Len(kept) |-> RDiv(kept[j].weight_pct, R(100))]

RECURSIVE ShortestUpTo(_)
\* the length of the shortest history among the first n columns, n >= 1
ShortestUpTo(n) ==
    IF n = 1 THEN Len(hist_of[Columns[1]])
    ELSE LET m == ShortestUpTo(n - 1)
         IN  IF Len(hist_of[Columns[n]]) < m THEN Len(hist_of[Columns[n]]) ELSE m

\* The rows of price_df = DataFrame(all_prices).dropna(): the r-th entry of
\* a history is the close of the r-th day, so the days every column has
\* are those of the shortest history.
JointRows == IF Columns = <<>> THEN 0 ELSE ShortestUpTo(Len(Columns))

\* a row of price_df
PriceRow(r) == [j \in 1..Len(Columns) |-> hist_of[Columns[j]][r]]

\* a row of returns_df = price_df.pct_change().dropna(), for 2 <= r
ReturnRow(r) ==
    [j \in 1..Len(Columns) |->
        RDiv(RSub(PriceRow(r)[j], PriceRow(r - 1)[j]), PriceRow(r - 1)[j])]

\* row.dot(weights), for as many weights as columns
Dot(row, weights) == Sum([j \in 1..Len(row) |-> RMul(row[j], weights[j])])

\* _compute_portfolio_returns reaches line 137 and the dot product raises
ReturnsDotRaises == DotShapeMismatch /\ JointRows >= 2

\* _compute_portfolio_returns, when it returns
PortfolioReturns ==
    IF Columns = <<>> \/ JointRows < 2 THEN <<>>
    ELSE [r \in 1..(JointRows - 1) |-> Dot(ReturnRow(r + 1), Weights)]

\* the pct_change().dropna() of one series
PctChanges(prices) ==
    [r \in 1..(Len(prices) - 1) |->
        RDiv(RSub(prices[r + 1], prices[r]), prices[r])]

\* _get_benchmark_returns
BenchmarkReturns == PctChanges(hist_of[Benchmark])

\* portfolio_value = price_df.dot(weights), line 165
PortfolioValue == [r \in 1..JointRows |-> Dot(PriceRow(r), Weights)]

\* _compute_max_drawdown, when it returns
ComputeMaxDrawdown ==
    IF Columns = <<>> THEN R(0) ELSE MaxDrawdown(PortfolioValue)

\* _compute_benchmark_total_return raises: total_return on a first price <= 0
BenchmarkTotalReturnRaises ==
    /\ Len(hist_of[Benchmark]) >= 2
    /\ TotalReturnRaises(hist_of[Benchmark][1])

\* _compute_benchmark_total_return, when it returns
BenchmarkTotalReturn ==
    IF Len(hist_of[Benchmark]) < 2 THEN R(0)
    ELSE TotalReturn(hist_of[Benchmark][1],
                     hist_of[Benchmark][Len(hist_of[Benchmark])])

\* analyze raises: a dot product (line 137 or 165), total_return on a cost
\* basis <= 0 (line 63) or on a first benchmark price <= 0 (line 172)
AnalyzeRaises ==
    \/ DotShapeMismatch
    \/ TotalReturnRaises(AnalysisTotalCost)
    \/ BenchmarkTotalReturnRaises

\* the tickers whose history analyze has requested when it returns or raises
RequestedAfter ==
    {holdings_data[k].ticker : k \in 1..Len(holdings_data)}
        \cup (IF ReturnsDotRaises THEN {} ELSE {Benchmark})

AnalysisResult ==
    [total_value |-> AnalysisTotalValue,
     total_cost |-> AnalysisTotalCost,
     total_return_pct |-> TotalReturn(AnalysisTotalCost, AnalysisTotalValue),
     annualized_return_pct |->
         AnnualizedReturnOneYear(TotalReturn(AnalysisTotalCost, AnalysisTotalValue)),
     volatility_pct |-> Times100(Volatility(PortfolioReturns)),
     sharpe_ratio |-> SharpeRatio(PortfolioReturns),
     max_drawdown_pct |-> ComputeMaxDrawdown,
     beta |-> Beta(PortfolioReturns, BenchmarkReturns),
     alpha_pct |->
         Alpha(AnnualizedReturnOneYear(TotalReturn(AnalysisTotalCost, AnalysisTotalValue)),
               BenchmarkTotalReturn,
               Beta(PortfolioReturns, BenchmarkReturns)),
     holdings_analysis |-> HoldingsAnalysis]

\* Variant of EmptyResult: the cost basis of the holdings that have a price.
EmptyResult_PricedCost ==
    [total_value |-> R(0),
     total_cost |-> AnalysisTotalCost,
     total_return_pct |-> R(0),
     annualized_return_pct |-> R(0),
     volatility_pct |-> R(0),
     sharpe_ratio |-> R(0),
     max_drawdown_pct |-> R(0),
     beta |-> R(0),
     alpha_pct |-> R(0),
     holdings_analysis |-> <<>>]

\* _empty_result
EmptyResult ==
    [total_value |-> R(0),
     total_cost |-> PortfolioTotalCost,
     total_return_pct |-> R(0),
     annualized_return_pct |-> R(0),
     volatility_pct |-> R(0),
     sharpe_ratio |-> R(0),
     max_drawdown_pct |-> R(0),
     beta |-> R(0),
     alpha_pct |-> R(0),
     holdings_analysis |-> <<>>]

\* AnalysisResult.profit_loss
ProfitLoss(res) == RSub(res.total_value, res.total_cost)

AInputs == <<portfolio, price_of, hist_of>>

Gathering == apc = "gather" /\ g <= Len(portfolio)

\* _gather_holdings_data, line 96-98: no price, the holding is skipped
GatherSkip ==
    /\ Gathering
    /\ price_of[portfolio[g].ticker] = None
    /\ g' = g + 1
    /\ UNCHANGED <<AInputs, holdings_data, apc, analysis, requested, rvars, mvars, pvars, xvars>>

\* Variant of GatherAppend: the holding is put in front of the list.
GatherAppend_Prepend ==
    /\ Gathering
    /\ price_of[portfolio[g].ticker] # None
    /\ holdings_data' =
          <<HoldingData(portfolio[g], price_of[portfolio[g].ticker])>> \o holdings_data
    /\ g' = g + 1
    /\ UNCHANGED <<AInputs, apc, analysis, requested, rvars, mvars, pvars, xvars>>

\* _gather_holdings_data, line 96-110: the holding is kept with its price
GatherAppend ==
    /\ Gathering
    /\ price_of[portfolio[g].ticker] # None
    /\ holdings_data' =
          Append(holdings_data, HoldingData(portfolio[g], price_of[portfolio[g].ticker]))
    /\ g' = g + 1
    /\ UNCHANGED <<AInputs, apc, analysis, requested, rvars, mvars, pvars, xvars>>

Gathered == apc = "gather" /\ g > Len(portfolio)

\* analyze, line 39-40
AnalyzeEmpty ==
    /\ Gathered
    /\ holdings_data = <<>>
    /\ analysis' = EmptyResult
    /\ apc' = "done"
    /\ UNCHANGED <<AInputs, g, holdings_data, requested, rvars, mvars, pvars, xvars>>

\* analyze, line 42-75, when a call in it raises
AnalyzeRaise ==
    /\ Gathered
    /\ holdings_data # <<>>
    /\ AnalyzeRaises
    /\ apc' = "raised"
    /\ requested' = RequestedAfter
    /\ UNCHANGED <<AInputs, g, holdings_data, analysis, rvars, mvars, pvars, xvars>>

\* analyze, line 42-91
AnalyzeReturn ==
    /\ Gathered
    /\ holdings_data # <<>>
    /\ ~AnalyzeRaises
    /\ analysis' = AnalysisResult
    /\ apc' = "done"
    /\ requested' = RequestedAfter
    /\ UNCHANGED <<AInputs, g, holdings_data, rvars, mvars, pvars, xvars>>

(***************************************************************************)
(* Inputs of analyze enumerated by the model: holdings have a positive     *)
(* quantity and cost basis (the loader validates both), a current price is *)
(* absent or non-negative, histories hold positive prices.                 *)
(***************************************************************************)
Holding(ticker, name, quantity, avg_cost) ==
    [ticker |-> ticker, name |-> name, quantity |-> quantity, avg_cost |-> avg_cost]

HoldingChoices ==
    {Holding(t, 0, q, c) : t \in Tickers, q \in {Frac(1, 2), R(2)}, c \in {R(2), R(3)}}

PriceAnswers == {None, R(0), Frac(5, 2), R(3)}
HistAnswers == {<<>>, <<R(2)>>, <<R(2), R(3)>>}

\* rebalance's variables while rebalance is not running
RebalanceIdle ==
    /\ holdings = <<>>
    /\ target_weights = <<>>
    /\ total_value = R(0)
    /\ tolerance = R(0)
    /\ tax_rate = R(0)
    /\ i = 0
    /\ orders = <<>>
    /\ total_buy = R(0)
    /\ total_sell = R(0)
    /\ estimated_tax = R(0)
    /\ pc = "idle"
    /\ result = None

\* A call of analyze on any enumerated portfolio and market data; the
\* display name of the k-th holding is k.
InitAnalyze ==
    /\ \E n \in 0..MaxHoldings : \E f \in [1..n -> HoldingChoices] :
          portfolio = [k \in 1..n |-> [f[k] EXCEPT !.name = k]]
    /\ price_of \in [Tickers -> PriceAnswers]
    /\ hist_of \in [Tickers \cup {Benchmark} -> HistAnswers]
    /\ g = 1
    /\ holdings_data = <<>>
    /\ apc = "gather"
    /\ analysis = None
    /\ requested = {}
    /\ RebalanceIdle
    /\ MetricsIdle
    /\ ProviderIdle
    /\ CommandIdle
    /\ InsightsIdle
    /\ LoaderIdle

NextAnalyze ==
    \/ GatherSkip
    \/ GatherAppend
    \/ AnalyzeEmpty
    \/ AnalyzeRaise
    \/ AnalyzeReturn

SpecAnalyze == InitAnalyze /\ [][NextAnalyze]_vars

(***************************************************************************)
(* analyze on histories of up to MaxSeries closes: holdings of two shares, *)
(* a price that is absent or positive, and histories of no close, one      *)
(* close, two closes and MaxSeries closes.                                 *)
(***************************************************************************)
ReturnHoldings ==
    {Holding(t, 0, R(2), c) : t \in Tickers, c \in {R(2), R(3)}}
ReturnPrices == {None, R(3), R(6)}

RECURSIVE Zigzag(_)
\* a history of n closes that goes 2, 3, 2, 3, ...
Zigzag(n) ==
    IF n = 0 THEN <<>>
    ELSE Append(Zigzag(n - 1), IF n % 2 = 1 THEN R(2) ELSE R(3))

ReturnHists == {<<>>, <<R(3)>>, <<R(2), R(3)>>, Zigzag(MaxSeries)}

InitReturns ==
    /\ \E n \in 0..MaxHoldings : \E f \in [1..n -> ReturnHoldings] :
          portfolio = [k \in 1..n |-> [f[k] EXCEPT !.name = k]]
    /\ price_of \in [Tickers -> ReturnPrices]
    /\ hist_of \in [Tickers \cup {Benchmark} -> ReturnHists]
    /\ g = 1
    /\ holdings_data = <<>>
    /\ apc = "gather"
    /\ analysis = None
    /\ requested = {}
    /\ RebalanceIdle
    /\ MetricsIdle
    /\ ProviderIdle
    /\ CommandIdle
    /\ InsightsIdle
    /\ LoaderIdle

SpecReturns == InitReturns /\ [][NextAnalyze]_vars

(***************************************************************************)
(* utils/metrics.py called on its own: one call of one function on any of  *)
(* the enumerated arguments.                                               *)
(***************************************************************************)
\* the series of at most MaxSeries values drawn from a set
SeriesOver(values) == UNION {[1..n -> values] : n \in 0..MaxSeries}

Amounts == {R(-2), R(0), Frac(1, 2), R(2), R(3)}
ReturnPcts == {R(-50), R(0), R(50), R(100)}
Horizons == {R(-1), R(0), Frac(1, 2), R(1)}
PositivePrices == {R(2), R(3), R(4)}
DailyReturns == {Frac(-1, 2), R(0), R(1)}

MetricCalls ==
    {[fn |-> "total_return", initial |-> a, final |-> b] :
        a \in Amounts, b \in Amounts}
    \cup {[fn |-> "annualized_return", total_return_pct |-> r, years |-> y] :
        r \in ReturnPcts, y \in Horizons}
    \cup {[fn |-> "max_drawdown", prices |-> s] : s \in SeriesOver(PositivePrices)}
    \cup {[fn |-> "beta", portfolio_returns |-> p, benchmark_returns |-> b] :
        p \in SeriesOver(DailyReturns), b \in SeriesOver(DailyReturns)}

Calling(fn) == mpc = "call" /\ mcall.fn = fn

\* total_return, line 11-12
RaiseTotalReturn ==
    /\ Calling("total_return")
    /\ TotalReturnRaises(mcall.initial)
    /\ mpc' = "raised"
    /\ UNCHANGED <<mcall, mret, rvars, avars, pvars, xvars>>

\* total_return, line 13
CallTotalReturn ==
    /\ Calling("total_return")
    /\ ~TotalReturnRaises(mcall.initial)
    /\ mret' = TotalReturn(mcall.initial, mcall.final)
    /\ mpc' = "returned"
    /\ UNCHANGED <<mcall, rvars, avars, pvars, xvars>>

\* annualized_return, line 18-19
RaiseAnnualizedReturn ==
    /\ Calling("annualized_return")
    /\ AnnualizedReturnRaises(mcall.years)
    /\ mpc' = "raised"
    /\ UNCHANGED <<mcall, mret, rvars, avars, pvars, xvars>>

\* annualized_return, line 20
CallAnnualizedReturn ==
    /\ Calling("annualized_return")
    /\ ~AnnualizedReturnRaises(mcall.years)
    /\ mret' = AnnualizedReturn(mcall.total_return_pct, mcall.years)
    /\ mpc' = "returned"
    /\ UNCHANGED <<mcall, rvars, avars, pvars, xvars>>

\* max_drawdown, line 54-58
CallMaxDrawdown ==
    /\ Calling("max_drawdown")
    /\ mret' = MaxDrawdown(mcall.prices)
    /\ mpc' = "returned"
    /\ UNCHANGED <<mcall, rvars, avars, pvars, xvars>>

\* beta, line 66-75
CallBeta ==
    /\ Calling("beta")
    /\ mret' = Beta(mcall.portfolio_returns, mcall.benchmark_returns)
    /\ mpc' = "returned"
    /\ UNCHANGED <<mcall, rvars, avars, pvars, xvars>>

InitMetrics ==
    /\ mcall \in MetricCalls
    /\ mpc = "call"
    /\ mret = <<>>
    /\ RebalanceIdle
    /\ AnalyzerIdle
    /\ ProviderIdle
    /\ CommandIdle
    /\ InsightsIdle
    /\ LoaderIdle

NextMetrics ==
    \/ RaiseTotalReturn
    \/ CallTotalReturn
    \/ RaiseAnnualizedReturn
    \/ CallAnnualizedReturn
    \/ CallMaxDrawdown
    \/ CallBeta

SpecMetrics == InitMetrics /\ [][NextMetrics]_vars

(***************************************************************************)
(* data/market_data.py.  One MarketDataProvider serves calls one after the *)
(* other.  What yfinance does during a call is drawn anew for every call:  *)
(* the constructor yf.Ticker raises or builds an object, reading           *)
(* ticker.info raises or answers a dict, ticker.history raises or answers  *)
(* a frame whose Close column is a series (<<>> for an empty frame).       *)
(* A ticker object is the pair of its symbol and the serial number of its  *)
(* construction for that symbol.                                           *)
(***************************************************************************)
\* Most calls one provider serves.
MaxCalls == 3

Symbols == Tickers
NoTicker == <<>>
Unknown == "Unknown"

\* the dicts ticker.info answers: each of the two keys read is there or not
InfoDicts ==
    {<<>>,
     [k \in {"currentPrice"} |-> Frac(5, 2)],
     [k \in {"sector"} |-> "Technology"],
     [k \in {"currentPrice", "sector"} |->
         IF k = "currentPrice" THEN Frac(5, 2) ELSE "Technology"]}

InfoAnswers ==
    {[raises |-> TRUE, dict |-> <<>>]}
    \cup {[raises |-> FALSE, dict |-> d] : d \in InfoDicts}

HistoryAnswers ==
    {[raises |-> TRUE, closes |-> <<>>],
     [raises |-> FALSE, closes |-> <<>>],
     [raises |-> FALSE, closes |-> <<R(2), R(3)>>]}

\* _get_ticker, line 16: the constructor is called for an uncached symbol
NeedsConstruction_Always(symbol) == TRUE
NeedsConstruction(symbol) == symbol \notin DOMAIN cache

\* _get_ticker raises: the constructor was called and raised
TickerFails(symbol, ctor_raises) == NeedsConstruction(symbol) /\ ctor_raises

\* _get_ticker builds a new object: line 17 has run to its end
TickerBuilt(symbol, ctor_raises) == NeedsConstruction(symbol) /\ ~ctor_raises

\* the object yf.Ticker(symbol) returns
NewTicker(symbol) == <<symbol, constructed[symbol] + 1>>

\* self._cache after _get_ticker
CacheAfter(symbol, ctor_raises) ==
    IF TickerBuilt(symbol, ctor_raises)
    THEN [s \in DOMAIN cache \cup {symbol} |->
             IF s = symbol THEN NewTicker(symbol) ELSE cache[s]]
    ELSE cache

\* the constructor calls that have succeeded, after _get_ticker
ConstructedAfter(symbol, ctor_raises) ==
    IF TickerBuilt(symbol, ctor_raises)
    THEN [constructed EXCEPT ![symbol] = @ + 1]
    ELSE constructed

\* the object _get_ticker returns, if it returns
TickerUsed(symbol, ctor_raises) ==
    IF TickerFails(symbol, ctor_raises) THEN NoTicker
    ELSE CacheAfter(symbol, ctor_raises)[symbol]

\* what a call of the provider ends with
Returns(value) == [raised |-> FALSE, ret |-> value]
Raises == [raised |-> TRUE, ret |-> <<>>]

\* get_current_price, line 22-34
CurrentPriceOutcome_HistoryUncaught(ticker_fails, info, hist) ==
    IF ticker_fails \/ info.raises THEN Returns(None)
    ELSE IF "currentPrice" \in DOMAIN info.dict
         THEN Returns(info.dict["currentPrice"])
    ELSE IF hist.raises THEN Raises
    ELSE IF hist.closes # <<>> THEN Returns(hist.closes[Len(hist.closes)])
    ELSE Returns(None)
CurrentPriceOutcome(ticker_fails, info, hist) ==
    IF ticker_fails \/ info.raises THEN Returns(None)
    ELSE IF "currentPrice" \in DOMAIN info.dict
         THEN Returns(info.dict["currentPrice"])
    ELSE IF hist.raises THEN Returns(None)
    ELSE IF hist.closes # <<>> THEN Returns(hist.closes[Len(hist.closes)])
    ELSE Returns(None)

\* get_sector, line 38-42
SectorOutcome(ticker_fails, info) ==
    IF ticker_fails \/ info.raises THEN Returns(Unknown)
    ELSE IF "sector" \in DOMAIN info.dict THEN Returns(info.dict["sector"])
    ELSE Returns(Unknown)

\* get_historical_prices, line 50-57
HistoricalPricesOutcome(ticker_fails, hist) ==
    IF ticker_fails \/ hist.raises THEN Returns(<<>>)
    ELSE Returns(hist.closes)

Serving == ncalls < MaxCalls

\* the part of a call that is _get_ticker
GetTicker(symbol, ctor_raises) ==
    /\ cache' = CacheAfter(symbol, ctor_raises)
    /\ constructed' = ConstructedAfter(symbol, ctor_raises)
    /\ ncalls' = ncalls + 1

GetCurrentPrice ==
    /\ Serving
    /\ \E symbol \in Symbols, ctor_raises \in BOOLEAN,
          info \in InfoAnswers, hist \in HistoryAnswers :
          /\ GetTicker(symbol, ctor_raises)
          /\ last' = [op |-> "get_current_price", symbol |-> symbol,
                      ctor_raises |-> ctor_raises, info |-> info, hist |-> hist,
                      built |-> TickerBuilt(symbol, ctor_raises),
                      ticker |-> TickerUsed(symbol, ctor_raises),
                      outcome |-> CurrentPriceOutcome(
                          TickerFails(symbol, ctor_raises), info, hist)]
    /\ UNCHANGED <<rvars, avars, mvars, xvars>>

GetSector ==
    /\ Serving
    /\ \E symbol \in Symbols, ctor_raises \in BOOLEAN, info \in InfoAnswers :
          /\ GetTicker(symbol, ctor_raises)
          /\ last' = [op |-> "get_sector", symbol |-> symbol,
                      ctor_raises |-> ctor_raises, info |-> info,
                      built |-> TickerBuilt(symbol, ctor_raises),
                      ticker |-> TickerUsed(symbol, ctor_raises),
                      outcome |-> SectorOutcome(
                          TickerFails(symbol, ctor_raises), info)]
    /\ UNCHANGED <<rvars, avars, mvars, xvars>>

GetHistoricalPrices ==
    /\ Serving
    /\ \E symbol \in Symbols, ctor_raises \in BOOLEAN, hist \in HistoryAnswers :
          /\ GetTicker(symbol, ctor_raises)
          /\ last' = [op |-> "get_historical_prices", symbol |-> symbol,
                      ctor_raises |-> ctor_raises, hist |-> hist,
                      built |-> TickerBuilt(symbol, ctor_raises),
                      ticker |-> TickerUsed(symbol, ctor_raises),
                      outcome |-> HistoricalPricesOutcome(
                          TickerFails(symbol, ctor_raises), hist)]
    /\ UNCHANGED <<rvars, avars, mvars, xvars>>

\* MarketDataProvider(), line 12-13
InitProvider ==
    /\ cache = <<>>
    /\ constructed = [s \in Symbols |-> 0]
    /\ ncalls = 0
    /\ last = <<>>
    /\ RebalanceIdle
    /\ AnalyzerIdle
    /\ MetricsIdle
    /\ CommandIdle
    /\ InsightsIdle
    /\ LoaderIdle

NextProvider ==
    \/ GetCurrentPrice
    \/ GetSector
    \/ GetHistoricalPrices

SpecProvider == InitProvider /\ [][NextProvider]_vars

(***************************************************************************)
(* cli/commands.py: run_rebalance, from line 80 on, for a portfolio that   *)
(* load_portfolio has returned.  The command runs analyze, reads the       *)
(* target weights, runs rebalance on the analysis and reports.             *)
(***************************************************************************)
\* the analysis has returned and the command goes on at line 84
Analyzed == cpc = "analyze" /\ apc = "done"

\* line 82: analyze raises and the command ends with its exception
CommandAnalyzeRaises ==
    /\ cpc = "analyze"
    /\ apc = "raised"
    /\ cpc' = "raised"
    /\ UNCHANGED <<cmd, written, rvars, avars, mvars, pvars, ivars, lvars>>

\* line 84-85: the target file cannot be read into a ticker/weight map
ReadTargetRaises ==
    /\ Analyzed
    /\ ~cmd.target_readable
    /\ cpc' = "raised"
    /\ UNCHANGED <<cmd, written, rvars, avars, mvars, pvars, ivars, lvars>>

\* line 84-96: the call of rebalance on the analysis, up to its line 46
CallRebalance ==
    /\ Analyzed
    /\ cmd.target_readable
    /\ holdings' = analysis.holdings_analysis
    /\ target_weights' = cmd.target
    /\ total_value' = analysis.total_value
    /\ tolerance' = cmd.tolerance
    /\ tax_rate' = cmd.tax_rate
    /\ i' = 1
    /\ orders' = <<>>
    /\ total_buy' = R(0)
    /\ total_sell' = R(0)
    /\ estimated_tax' = R(0)
    /\ pc' = "loop"
    /\ result' = None
    /\ cpc' = "rebalance"
    /\ UNCHANGED <<cmd, written, avars, mvars, pvars, ivars, lvars>>

\* line 90: rebalance raises and the command ends with its exception
CommandRebalanceRaises ==
    /\ cpc = "rebalance"
    /\ pc = "raised"
    /\ cpc' = "raised"
    /\ UNCHANGED <<cmd, written, rvars, avars, mvars, pvars, ivars, lvars>>

\* line 98-100: no order, the command reports it and returns
ReturnNoOrders ==
    /\ cpc = "rebalance"
    /\ pc = "done"
    /\ result.orders = <<>>
    /\ cpc' = "done"
    /\ UNCHANGED <<cmd, written, rvars, avars, mvars, pvars, ivars, lvars>>

\* line 102-123 when no export is asked for (export is None or empty)
ReturnOrders ==
    /\ cpc = "rebalance"
    /\ pc = "done"
    /\ result.orders # <<>>
    /\ cmd.export = None
    /\ cpc' = "done"
    /\ UNCHANGED <<cmd, written, rvars, avars, mvars, pvars, ivars, lvars>>

\* line 102-123: the orders are printed and export_to_excel saves the file
ExportOrders ==
    /\ cpc = "rebalance"
    /\ pc = "done"
    /\ result.orders # <<>>
    /\ cmd.export # None
    /\ written' = written \cup {cmd.export}
    /\ cpc' = "done"
    /\ UNCHANGED <<cmd, rvars, avars, mvars, pvars, ivars, lvars>>

\* line 122, exporter.py line 26: saving the workbook raises
ExportRaises ==
    /\ cpc = "rebalance"
    /\ pc = "done"
    /\ result.orders # <<>>
    /\ cmd.export # None
    /\ cpc' = "raised"
    /\ UNCHANGED <<cmd, written, rvars, avars, mvars, pvars, ivars, lvars>>

\* Portfolios of the command: two shares of each holding.
CommandHoldings ==
    {Holding(t, 0, R(2), c) : t \in Tickers, c \in {R(2), R(3)}}
CommandHists == {<<>>, <<R(2), R(3)>>}
ExportPaths == {None, "report.xlsx"}

\* the options of the command: the target file read at line 84-85 (or
\* unreadable), --tolerance, --tax-rate, --export
CommandOptions ==
    {[target |-> w, target_readable |-> TRUE, tolerance |-> R(5),
      tax_rate |-> Frac(1, 5), export |-> e] :
        w \in {[t \in {"A"} |-> R(30)],
               [t \in Tickers |-> IF t = "A" THEN R(30) ELSE R(50)],
               [t \in Tickers |-> IF t = "A" THEN R(80) ELSE R(20)]},
        e \in ExportPaths}
    \cup {[target |-> <<>>, target_readable |-> FALSE, tolerance |-> R(5),
           tax_rate |-> Frac(1, 5), export |-> e] : e \in ExportPaths}

\* run_rebalance at line 80 on any enumerated portfolio, market and options
InitCommand ==
    /\ \E n \in 0..MaxHoldings : \E f \in [1..n -> CommandHoldings] :
          portfolio = [k \in 1..n |-> [f[k] EXCEPT !.name = k]]
    /\ price_of \in [Tickers -> PriceAnswers]
    /\ hist_of \in [Tickers \cup {Benchmark} -> CommandHists]
    /\ g = 1
    /\ holdings_data = <<>>
    /\ apc = "gather"
    /\ analysis = None
    /\ requested = {}
    /\ cmd \in CommandOptions
    /\ cpc = "analyze"
    /\ written = {}
    /\ RebalanceIdle
    /\ MetricsIdle
    /\ ProviderIdle
    /\ InsightsIdle
    /\ LoaderIdle

NextCommand ==
    \/ GatherSkip
    \/ GatherAppend
    \/ AnalyzeEmpty
    \/ AnalyzeRaise
    \/ AnalyzeReturn
    \/ CommandAnalyzeRaises
    \/ ReadTargetRaises
    \/ CallRebalance
    \/ SkipInBand
    \/ RaiseZeroPrice
    \/ SkipSubShare
    \/ EmitBuy
    \/ EmitSell
    \/ Return
    \/ CommandRebalanceRaises
    \/ ReturnNoOrders
    \/ ReturnOrders
    \/ ExportOrders
    \/ ExportRaises

SpecCommand == InitCommand /\ [][NextCommand]_vars

(***************************************************************************)
(* core/ai_insights.py: generate_insights.  The anthropic client is a      *)
(* collaborator: building it, building the prompt, the API call and the    *)
(* content of the response each succeed or raise.                          *)
(***************************************************************************)
\* FALLBACK_MESSAGE, line 9
FallbackMessage == "fallback"

\* Variant of NoKey: only a key of None counts as no key.
NoKey_OnlyNone == icall.api_key = None

\* line 53: not api_key, true of None and of the empty string
NoKey == icall.api_key = None \/ icall.api_key = ""

\* line 66: response.content[0].text raises on an empty content list
\* (IndexError) and on a block without a text attribute (AttributeError)
ExtractRaises ==
    IF Len(icall.content) = 0 THEN TRUE ELSE ~icall.content[1].has_text

InsightsCalled == ipc = "call"

\* line 53-54
ReturnNoKey ==
    /\ InsightsCalled
    /\ NoKey
    /\ insights' = FallbackMessage
    /\ ipc' = "done"
    /\ UNCHANGED <<icall, clients, api_calls, rvars, avars, mvars, pvars, cvars, lvars>>

\* line 57, 67-68: anthropic.Anthropic(...) raises
ConstructFails ==
    /\ InsightsCalled
    /\ ~NoKey
    /\ icall.construct_raises
    /\ insights' = FallbackMessage
    /\ ipc' = "done"
    /\ UNCHANGED <<icall, clients, api_calls, rvars, avars, mvars, pvars, cvars, lvars>>

\* line 57-63, 67-68: the client is built, _build_prompt raises while the
\* arguments of the call are evaluated
PromptFails ==
    /\ InsightsCalled
    /\ ~NoKey
    /\ ~icall.construct_raises
    /\ icall.prompt_raises
    /\ clients' = clients + 1
    /\ insights' = FallbackMessage
    /\ ipc' = "done"
    /\ UNCHANGED <<icall, api_calls, rvars, avars, mvars, pvars, cvars, lvars>>

\* line 57-65, 67-68: client.messages.create raises
CreateFails ==
    /\ InsightsCalled
    /\ ~NoKey
    /\ ~icall.construct_raises
    /\ ~icall.prompt_raises
    /\ icall.create_raises
    /\ clients' = clients + 1
    /\ api_calls' = api_calls + 1
    /\ insights' = FallbackMessage
    /\ ipc' = "done"
    /\ UNCHANGED <<icall, rvars, avars, mvars, pvars, cvars, lvars>>

\* line 57-68: the call answers, reading response.content[0].text raises
ExtractFails ==
    /\ InsightsCalled
    /\ ~NoKey
    /\ ~icall.construct_raises
    /\ ~icall.prompt_raises
    /\ ~icall.create_raises
    /\ ExtractRaises
    /\ clients' = clients + 1
    /\ api_calls' = api_calls + 1
    /\ insights' = FallbackMessage
    /\ ipc' = "done"
    /\ UNCHANGED <<icall, rvars, avars, mvars, pvars, cvars, lvars>>

\* line 57-66: the text of the first content block is returned
ReturnText ==
    /\ InsightsCalled
    /\ ~NoKey
    /\ ~icall.construct_raises
    /\ ~icall.prompt_raises
    /\ ~icall.create_raises
    /\ ~ExtractRaises
    /\ clients' = clients + 1
    /\ api_calls' = api_calls + 1
    /\ insights' = icall.content[1].text
    /\ ipc' = "done"
    /\ UNCHANGED <<icall, rvars, avars, mvars, pvars, cvars, lvars>>

ApiKeys == {None, "", "sk-key"}
\* a content block: a text block, or a block of another type without text
ContentBlocks ==
    {[has_text |-> TRUE, text |-> "first"],
     [has_text |-> TRUE, text |-> "second"],
     [has_text |-> FALSE, text |-> ""]}
\* response.content: no block, one block or two
Contents == UNION {[1..n -> ContentBlocks] : n \in 0..2}

InsightCalls ==
    [api_key : ApiKeys, construct_raises : BOOLEAN, prompt_raises : BOOLEAN,
     create_raises : BOOLEAN, content : Contents]

InitInsights ==
    /\ icall \in InsightCalls
    /\ ipc = "call"
    /\ insights = None
    /\ clients = 0
    /\ api_calls = 0
    /\ RebalanceIdle
    /\ AnalyzerIdle
    /\ MetricsIdle
    /\ ProviderIdle
    /\ CommandIdle
    /\ LoaderIdle

NextInsights ==
    \/ ReturnNoKey
    \/ ConstructFails
    \/ PromptFails
    \/ CreateFails
    \/ ExtractFails
    \/ ReturnText

SpecInsights == InitInsights /\ [][NextInsights]_vars

(***************************************************************************)
(* data/validators.py and data/loader.py: load_portfolio from line 43 on,  *)
(* for the frame df that _read_file has returned.  A string is the         *)
(* sequence of its characters.  A cell of the frame is a number, a text or *)
(* a blank (nan, what the reader makes of an empty cell).  The index of    *)
(* the frame is the reader's default 0 .. n - 1.                           *)
(***************************************************************************)
UpperCase == <<"A", "B", "C", "D", "E", "F", "G", "H", "I", "J", "K", "L", "M",
               "N", "O", "P", "Q", "R", "S", "T", "U", "V", "W", "X", "Y", "Z">>
LowerCase == <<"a", "b", "c", "d", "e", "f", "g", "h", "i", "j", "k", "l", "m",
               "n", "o", "p", "q", "r", "s", "t", "u", "v", "w", "x", "y", "z">>
DigitChars == <<"0", "1", "2", "3", "4", "5", "6", "7", "8", "9">>

IsUpper(c) == \E k \in 1..Len(UpperCase) : UpperCase[k] = c
IsDigit(c) == \E k \in 1..Len(DigitChars) : DigitChars[k] = c
IsSpace(c) == c = " "

\* str.lower
ToLower(s) ==
    [k \in 1..Len(s) |->
        IF IsUpper(s[k])
        THEN LowerCase[CHOOSE j \in 1..Len(UpperCase) : UpperCase[j] = s[k]]
        ELSE s[k]]

RECURSIVE StripLeft(_)
StripLeft(s) ==
    IF Len(s) = 0 THEN <<>>
    ELSE IF IsSpace(s[1]) THEN StripLeft(SubSeq(s, 2, Len(s)))
    ELSE s

RECURSIVE StripRight(_)
StripRight(s) ==
    IF Len(s) = 0 THEN <<>>
    ELSE IF IsSpace(s[Len(s)]) THEN StripRight(SubSeq(s, 1, Len(s) - 1))
    ELSE s

\* str.strip
Strip(s) == StripRight(StripLeft(s))

\* the cells of a frame
Num(x) == [kind |-> "num", num |-> x, text |-> <<>>]
Text(t) == [kind |-> "text", num |-> R(0), text |-> t]
Blank == [kind |-> "nan", num |-> R(0), text |-> <<>>]

\* str(cell) of a text or of a blank cell
Str(cell) == IF cell.kind = "text" THEN cell.text ELSE <<"n", "a", "n">>

\* float(cell) raises ValueError: a text that is not a string of digits
FloatRaises(cell) ==
    /\ cell.kind = "text"
    /\ \/ Len(Strip(cell.text)) = 0
       \/ \E k \in 1..Len(Strip(cell.text)) : ~IsDigit(Strip(cell.text)[k])

RECURSIVE DigitsValue(_)
\* the number a string of digits stands for
DigitsValue(s) ==
    IF Len(s) = 0 THEN 0
    ELSE 10 * DigitsValue(SubSeq(s, 1, Len(s) - 1))
         + (CHOOSE j \in 1..Len(DigitChars) : DigitChars[j] = s[Len(s)]) - 1

\* float(cell) when it does not raise
Float(cell) ==
    IF cell.kind = "num" THEN cell.num
    ELSE IF cell.kind = "nan" THEN NaN
    ELSE R(DigitsValue(Strip(cell.text)))

\* REQUIRED_COLUMNS, line 13
RequiredColumns ==
    {<<"t", "i", "c", "k", "e", "r">>, <<"n", "a", "m", "e">>,
     <<"q", "u", "a", "n", "t", "i", "t", "y">>,
     <<"a", "v", "g", "_", "c", "o", "s", "t">>}

\* line 9: ^[A-Z]{1,5}$
UsTicker(s) == Len(s) \in 1..5 /\ \A k \in 1..Len(s) : IsUpper(s[k])
\* line 10: ^\d{6}\.(KS|KQ)$
KrTicker(s) ==
    /\ Len(s) = 9
    /\ \A k \in 1..6 : IsDigit(s[k])
    /\ s[7] = "."
    /\ s[8] = "K"
    /\ s[9] \in {"S", "Q"}
\* line 11: ^\^[A-Z0-9]+$
IndexTicker(s) ==
    /\ Len(s) >= 2
    /\ s[1] = "^"
    /\ \A k \in 2..Len(s) : IsUpper(s[k]) \/ IsDigit(s[k])

\* validate_ticker: the message of the ValueError it raises, or None
TickerError(t) ==
    IF Len(Strip(t)) = 0 THEN "Ticker cannot be empty"
    ELSE IF UsTicker(Strip(t)) \/ KrTicker(Strip(t)) \/ IndexTicker(Strip(t)) THEN None
    ELSE "Invalid ticker"

\* validate_quantity: the message of the ValueError it raises, or None;
\* nan <= 0 is false, so a blank cell raises nothing
QuantityError(cell) ==
    IF FloatRaises(cell) THEN "Invalid quantity"
    ELSE IF Float(cell) = NaN THEN None
    ELSE IF RLe(Float(cell), R(0)) THEN "Quantity must be positive"
    ELSE None

\* validate_price: the message of the ValueError it raises, or None
PriceError(cell) ==
    IF FloatRaises(cell) THEN "Invalid price"
    ELSE IF Float(cell) = NaN THEN None
    ELSE IF RLe(Float(cell), R(0)) THEN "Price must be positive"
    ELSE None

\* line 58-59: the column labels of the copy, lowered and stripped
NormalizedColumns == [j \in 1..Len(df.columns) |-> Strip(ToLower(df.columns[j]))]

\* line 61
Missing ==
    {c \in RequiredColumns :
        \A j \in 1..Len(NormalizedColumns) : NormalizedColumns[j] # c}

\* row[name] in the normalized frame
Cell(row, name) ==
    row[CHOOSE j \in 1..Len(NormalizedColumns) : NormalizedColumns[j] = name]

TickerOf(row) == Cell(row, <<"t", "i", "c", "k", "e", "r">>)
NameOf(row) == Cell(row, <<"n", "a", "m", "e">>)
QuantityOf(row) == Cell(row, <<"q", "u", "a", "n", "t", "i", "t", "y">>)
AvgCostOf(row) == Cell(row, <<"a", "v", "g", "_", "c", "o", "s", "t">>)

\* line 70-82: the errors of the row of index k - 1, reported as row k
RowErrors(k) ==
    LET row == df.rows[k]
        t == TickerError(Str(TickerOf(row)))
        q == QuantityError(QuantityOf(row))
        p == PriceError(AvgCostOf(row))
    IN  (IF t = None THEN <<>> ELSE <<[row |-> k, field |-> "ticker", message |-> t]>>)
        \o (IF q = None THEN <<>> ELSE <<[row |-> k, field |-> "quantity", message |-> q]>>)
        \o (IF p = None THEN <<>> ELSE <<[row |-> k, field |-> "avg_cost", message |-> p]>>)

RECURSIVE ErrorsUpTo(_)
\* line 68-82: errors after the first n rows
ErrorsUpTo(n) == IF n = 0 THEN <<>> ELSE ErrorsUpTo(n - 1) \o RowErrors(n)

Loading == lpc = "call"

\* validators.py line 61-63
RaiseMissingColumns ==
    /\ Loading
    /\ Missing # {}
    /\ lerr' = [message |-> "Missing required columns", missing |-> Missing,
                errors |-> <<>>]
    /\ lpc' = "raised"
    /\ UNCHANGED <<df, validated, loaded, rvars, avars, mvars, pvars, cvars, ivars>>

\* validators.py line 65-66
RaiseEmpty ==
    /\ Loading
    /\ Missing = {}
    /\ Len(df.rows) = 0
    /\ lerr' = [message |-> "DataFrame is empty", missing |-> {}, errors |-> <<>>]
    /\ lpc' = "raised"
    /\ UNCHANGED <<df, validated, loaded, rvars, avars, mvars, pvars, cvars, ivars>>

\* validators.py line 68-85
RaiseRowErrors ==
    /\ Loading
    /\ Missing = {}
    /\ Len(df.rows) # 0
    /\ Len(ErrorsUpTo(Len(df.rows))) # 0
    /\ lerr' = [message |-> "rows", missing |-> {},
                errors |-> ErrorsUpTo(Len(df.rows))]
    /\ lpc' = "raised"
    /\ UNCHANGED <<df, validated, loaded, rvars, avars, mvars, pvars, cvars, ivars>>

\* loader.py line 46-55: the holdings built from the validated frame
LoadedHoldings ==
    [k \in 1..Len(df.rows) |->
        Holding(Strip(Str(TickerOf(df.rows[k]))),
                Strip(Str(NameOf(df.rows[k]))),
                Float(QuantityOf(df.rows[k])),
                Float(AvgCostOf(df.rows[k])))]

\* validators.py line 87, loader.py line 43-61
LoadPortfolio ==
    /\ Loading
    /\ Missing = {}
    /\ Len(df.rows) # 0
    /\ Len(ErrorsUpTo(Len(df.rows))) = 0
    /\ validated' = [columns |-> NormalizedColumns, rows |-> df.rows]
    /\ loaded' = LoadedHoldings
    /\ lpc' = "done"
    /\ UNCHANGED <<df, lerr, rvars, avars, mvars, pvars, cvars, ivars>>

\* Rows of the file, by the field each cell belongs to.
FileRow(ticker, quantity, avg_cost) ==
    [ticker |-> ticker, name |-> Text(<<"n">>), quantity |-> quantity,
     avg_cost |-> avg_cost, currency |-> Text(<<"U", "S", "D">>)]

FileRows ==
    {FileRow(Text(<<"A", "B">>), Num(R(10)), Num(R(150))),
     FileRow(Text(<<" ", "A", "B", " ">>), Text(<<"1", "0">>), Num(Frac(5, 2))),
     FileRow(Text(<<"0", "0", "5", "9", "3", "0", ".", "K", "S">>), Num(R(1)), Num(R(2))),
     FileRow(Text(<<"^", "G", "S", "P", "C">>), Num(R(1)), Text(<<"2">>)),
     FileRow(Text(<<"a", "b", "!">>), Num(R(10)), Num(R(150))),
     FileRow(Text(<<"A", "B">>), Num(R(-5)), Num(R(150))),
     FileRow(Text(<<"A", "B", "C", "D", "E", "F">>), Text(<<"a", "b", "c">>), Num(R(0))),
     FileRow(Text(<<" ">>), Num(R(0)), Text(<<"a", "b", "c">>)),
     FileRow(Blank, Num(R(10)), Num(R(150))),
     FileRow(Text(<<"A", "B">>), Blank, Num(R(150))),
     FileRow(Text(<<"A", "B">>), Num(R(10)), Blank)}

\* Column layouts: the label of each column and the field it holds.
Column(label, field) == [label |-> label, field |-> field]
ColumnLayouts ==
    {<<Column(<<"t", "i", "c", "k", "e", "r">>, "ticker"),
       Column(<<"n", "a", "m", "e">>, "name"),
       Column(<<"q", "u", "a", "n", "t", "i", "t", "y">>, "quantity"),
       Column(<<"a", "v", "g", "_", "c", "o", "s", "t">>, "avg_cost")>>,
     <<Column(<<"Q", "u", "a", "n", "t", "i", "t", "y", " ">>, "quantity"),
       Column(<<" ", "T", "i", "c", "k", "e", "r">>, "ticker"),
       Column(<<"A", "V", "G", "_", "C", "O", "S", "T">>, "avg_cost"),
       Column(<<"c", "u", "r", "r", "e", "n", "c", "y">>, "currency"),
       Column(<<"N", "a", "m", "e">>, "name")>>,
     <<Column(<<"t", "i", "c", "k", "e", "r">>, "ticker"),
       Column(<<"n", "a", "m", "e">>, "name"),
       Column(<<"q", "u", "a", "n", "t", "i", "t", "y">>, "quantity")>>,
     <<Column(<<"T", "i", "c", "k", "e", "r">>, "ticker"),
       Column(<<"p", "r", "i", "c", "e">>, "avg_cost")>>}

\* the frame of a layout and of the rows of a file
Frame(layout, rows) ==
    [columns |-> [j \in 1..Len(layout) |-> layout[j].label],
     rows |-> [k \in 1..Len(rows) |->
                  [j \in 1..Len(layout) |-> rows[k][layout[j].field]]]]

InitLoad ==
    /\ \E layout \in ColumnLayouts : \E n \in 0..MaxHoldings :
          \E rows \in [1..n -> FileRows] : df = Frame(layout, rows)
    /\ lpc = "call"
    /\ lerr = None
    /\ validated = None
    /\ loaded = None
    /\ RebalanceIdle
    /\ AnalyzerIdle
    /\ MetricsIdle
    /\ ProviderIdle
    /\ CommandIdle
    /\ InsightsIdle

NextLoad ==
    \/ RaiseMissingColumns
    \/ RaiseEmpty
    \/ RaiseRowErrors
    \/ LoadPortfolio

SpecLoad == InitLoad /\ [][NextLoad]_vars

(***************************************************************************)
(* Properties of rebalance.  They are stated in the arithmetic of the      *)
(* claims, not through the operators of the model above.                   *)
(***************************************************************************)
\* the holdings the loop has finished with
Processed == {k \in 1..Len(holdings) : k < i}
\* the positions in orders of the orders emitted for the k-th holding
OrdersOf(k) == {j \in 1..Len(orders) : orders[j].name = k}
ActionsOf(k) == {orders[j].action : j \in OrdersOf(k)}
\* the holding's target percentage, 0 for a ticker absent from the map
PctOf(h) == IF h.ticker \in DOMAIN target_weights THEN target_weights[h.ticker] ELSE R(0)
\* total_value * target_pct / 100
ValueAt(pct) == RDiv(RMul(total_value, pct), R(100))
\* |target_value - market_value|
Delta(h) == RAbs(RSub(ValueAt(PctOf(h)), h.market_value))
Positive(x) == RLt(R(0), x)
\* q = floor(a / p), for p > 0
IsFloor(q, a, p) ==
    /\ q \in Int
    /\ RLe(RMul(R(q), p), a)
    /\ RLt(a, RMul(R(q + 1), p))
\* |target_pct - weight_pct| <= tolerance
WithinTolerance(h) == RLe(RAbs(RSub(PctOf(h), h.weight_pct)), tolerance)

\* C1: every emitted order has an integer quantity >= 1 equal to
\* floor(|target_value - market_value| / current_price), with
\* target_value = total_value * target_pct / 100, and a holding whose
\* |target_value - market_value| is below one share price has no order.
C1_WholeShares ==
    /\ \A j \in 1..Len(orders) :
          LET o == orders[j]
              h == holdings[o.name]
          IN  /\ o.quantity \in Int
              /\ o.quantity >= 1
              /\ Positive(h.current_price)
              /\ IsFloor(o.quantity, Delta(h), h.current_price)
    /\ \A k \in Processed :
          RLt(Delta(holdings[k]), holdings[k].current_price) => OrdersOf(k) = {}
    /\ pc = "done" => result.orders = orders

\* C1 witness: a returned result with an order whose delta is not a whole
\* number of shares, next to a holding out of band whose delta is sub-share.
C1_Witness ==
    /\ pc = "done"
    /\ \E j \in 1..Len(orders) :
          LET h == holdings[orders[j].name]
          IN  RLt(RMul(R(orders[j].quantity), h.current_price), Delta(h))
    /\ \E k \in Processed :
          /\ ~WithinTolerance(holdings[k])
          /\ Positive(Delta(holdings[k]))
          /\ RLt(Delta(holdings[k]), holdings[k].current_price)

\* C2: a holding with |target_pct - weight_pct| <= tolerance, equality
\* included, never has an order, whatever its market value and price; when
\* every holding is within tolerance rebalance does not raise and returns
\* no orders and zero total_buy_cost, total_sell_proceeds, net_cost and
\* estimated_tax.
C2_WithinToleranceNoOrder ==
    /\ \A k \in 1..Len(holdings) : WithinTolerance(holdings[k]) => OrdersOf(k) = {}
    /\ (\A k \in 1..Len(holdings) : WithinTolerance(holdings[k])) =>
          /\ pc # "raised"
          /\ pc = "done" =>
                result = [orders |-> <<>>, total_buy_cost |-> R(0),
                          total_sell_proceeds |-> R(0), net_cost |-> R(0),
                          estimated_tax |-> R(0)]

\* C2 witness: rebalance returned for two holdings within tolerance, one of
\* them exactly at the tolerance and a whole share away from its target
\* value, the other with a zero price.
C2_Witness ==
    /\ pc = "done"
    /\ Len(holdings) = 2
    /\ \A k \in 1..2 : WithinTolerance(holdings[k])
    /\ \E k \in 1..2 :
          /\ RAbs(RSub(PctOf(holdings[k]), holdings[k].weight_pct)) = tolerance
          /\ Positive(holdings[k].current_price)
          /\ RLe(holdings[k].current_price, Delta(holdings[k]))
    /\ \E k \in 1..2 : holdings[k].current_price = R(0) /\ Positive(Delta(holdings[k]))

\* weight_pct = market_value / total_value * 100
WeightIsShare(h) ==
    /\ ~RIsZero(total_value)
    /\ h.weight_pct = RMul(RDiv(h.market_value, total_value), R(100))
\* the delta is at least one share, of a positive price
AtLeastOneShare(h) == Positive(h.current_price) /\ RLe(h.current_price, Delta(h))

\* C3: for holdings whose weight_pct is market_value / total_value * 100, a
\* holding above its target weight by more than the tolerance never gets a
\* BUY and gets a SELL when its delta is at least one share; a holding below
\* its target weight by more than the tolerance never gets a SELL and gets a
\* BUY when its delta is at least one share.
C3_Direction ==
    \A k \in Processed :
        LET h == holdings[k]
        IN  WeightIsShare(h) =>
              /\ RLt(tolerance, RSub(h.weight_pct, PctOf(h))) =>
                    /\ "BUY" \notin ActionsOf(k)
                    /\ AtLeastOneShare(h) => "SELL" \in ActionsOf(k)
              /\ RLt(tolerance, RSub(PctOf(h), h.weight_pct)) =>
                    /\ "SELL" \notin ActionsOf(k)
                    /\ AtLeastOneShare(h) => "BUY" \in ActionsOf(k)

\* C3 witness: a returned result where an overweight holding was sold and an
\* underweight holding was bought, both with weight_pct = value share.
C3_Witness ==
    /\ pc = "done"
    /\ \E k \in Processed :
          /\ WeightIsShare(holdings[k])
          /\ RLt(tolerance, RSub(holdings[k].weight_pct, PctOf(holdings[k])))
          /\ ActionsOf(k) = {"SELL"}
    /\ \E k \in Processed :
          /\ WeightIsShare(holdings[k])
          /\ RLt(tolerance, RSub(PctOf(holdings[k]), holdings[k].weight_pct))
          /\ ActionsOf(k) = {"BUY"}

\* sum of quantity * current_price over the orders of seq with the action
RECURSIVE SumOrders(_, _)
SumOrders(seq, action) ==
    IF seq = <<>> THEN R(0)
    ELSE LET o == seq[Len(seq)]
             rest == SumOrders(SubSeq(seq, 1, Len(seq) - 1), action)
         IN  IF o.action = action
             THEN RAdd(rest, RMul(R(o.quantity), o.current_price))
             ELSE rest

\* C4: in every returned RebalanceResult total_buy_cost is the sum of
\* quantity * current_price over its BUY orders, total_sell_proceeds the
\* same sum over its SELL orders, both are >= 0, and
\* net_cost = total_buy_cost - total_sell_proceeds.
C4_Totals ==
    pc = "done" =>
        /\ result.total_buy_cost = SumOrders(result.orders, "BUY")
        /\ result.total_sell_proceeds = SumOrders(result.orders, "SELL")
        /\ RLe(R(0), result.total_buy_cost)
        /\ RLe(R(0), result.total_sell_proceeds)
        /\ result.net_cost = RSub(result.total_buy_cost, result.total_sell_proceeds)

\* C4 witness: a returned result with a BUY and a SELL of different values.
C4_Witness ==
    /\ pc = "done"
    /\ {result.orders[j].action : j \in 1..Len(result.orders)} = {"BUY", "SELL"}
    /\ ~RIsZero(result.net_cost)

\* quantity * (current_price - avg_cost) * tax_rate summed over the SELL
\* orders of seq whose holding has current_price > avg_cost
RECURSIVE SumGainTax(_)
SumGainTax(seq) ==
    IF seq = <<>> THEN R(0)
    ELSE LET o == seq[Len(seq)]
             h == holdings[o.name]
             rest == SumGainTax(SubSeq(seq, 1, Len(seq) - 1))
         IN  IF o.action = "SELL" /\ RLt(h.avg_cost, o.current_price)
             THEN RAdd(rest, RMul(RMul(R(o.quantity), RSub(o.current_price, h.avg_cost)),
                                  tax_rate))
             ELSE rest

\* C5: estimated_tax is the sum over SELL orders with current_price >
\* avg_cost of quantity * (current_price - avg_cost) * tax_rate when
\* tax_rate > 0, and 0 when tax_rate <= 0; it is never negative.
C5_EstimatedTax ==
    /\ estimated_tax = IF Positive(tax_rate) THEN SumGainTax(orders) ELSE R(0)
    /\ RLe(R(0), estimated_tax)
    /\ pc = "done" => result.estimated_tax = estimated_tax /\ result.orders = orders

\* C5 witness: a returned result, under a positive tax rate, with a taxed
\* SELL at a gain and an untaxed SELL at a loss.
C5_Witness ==
    /\ pc = "done"
    /\ Positive(tax_rate)
    /\ Positive(result.estimated_tax)
    /\ \E j \in 1..Len(orders) :
          /\ orders[j].action = "SELL"
          /\ RLt(orders[j].current_price, holdings[orders[j].name].avg_cost)
    /\ \E j \in 1..Len(orders) :
          /\ orders[j].action = "SELL"
          /\ RLt(holdings[orders[j].name].avg_cost, orders[j].current_price)

\* C6: a holding whose ticker is absent from target_weights is treated as
\* having target 0: if its weight_pct exceeds the tolerance and its market
\* value is at least one share, it gets a SELL for
\* floor(market_value / current_price) shares; it never gets a BUY.
C6_AbsentTickerLiquidated ==
    \A k \in Processed :
        LET h == holdings[k]
        IN  h.ticker \notin DOMAIN target_weights =>
              /\ "BUY" \notin ActionsOf(k)
              /\ (/\ RLt(tolerance, h.weight_pct)
                  /\ Positive(h.current_price)
                  /\ RLe(h.current_price, h.market_value)) =>
                    \E j \in OrdersOf(k) :
                        /\ orders[j].action = "SELL"
                        /\ IsFloor(orders[j].quantity, h.market_value, h.current_price)

\* C6 witness: a returned result that sells all whole shares of a holding
\* absent from a non-empty target map.
C6_Witness ==
    /\ pc = "done"
    /\ DOMAIN target_weights # {}
    /\ Positive(total_value)
    /\ \E k \in Processed :
          /\ holdings[k].ticker \notin DOMAIN target_weights
          /\ ActionsOf(k) = {"SELL"}

\* C7: every emitted order has action BUY or SELL, with estimated_cost
\* +quantity * current_price for a BUY and -quantity * current_price for a
\* SELL.
C7_SignedCost ==
    \A j \in 1..Len(orders) :
        LET o == orders[j]
            v == RMul(R(o.quantity), o.current_price)
        IN  /\ o.action \in {"BUY", "SELL"}
            /\ o.action = "BUY" => o.estimated_cost = v
            /\ o.action = "SELL" => o.estimated_cost = RNeg(v)

\* C7 witness: a BUY and a SELL emitted in one call.
C7_Witness ==
    /\ Len(orders) = 2
    /\ orders[1].action = "SELL"
    /\ orders[2].action = "BUY"

(***************************************************************************)
(* Properties of analyze, stated over the portfolio and the market-data    *)
(* answers.                                                                *)
(***************************************************************************)
HasPrice(h) == price_of[h.ticker] # None
\* the holdings of the portfolio with a price, in portfolio order
Priced == SelectSeq(portfolio, HasPrice)
\* the holding a _HoldingData or HoldingAnalysis record was made from
Origin(d) == Holding(d.ticker, d.name, d.quantity, d.avg_cost)
NoTickerTwice ==
    \A a, b \in 1..Len(portfolio) : portfolio[a].ticker = portfolio[b].ticker => a = b
PricedValue(h) == RMul(h.quantity, price_of[h.ticker])
PricedCost(h) == RMul(h.avg_cost, h.quantity)
\* the sums of the claims over the priced holdings
PricedValueSum == Sum([k \in 1..Len(Priced) |-> PricedValue(Priced[k])])
PricedCostSum == Sum([k \in 1..Len(Priced) |-> PricedCost(Priced[k])])

\* C8: holdings_analysis is exactly the subsequence of portfolio.holdings,
\* in the same order, whose price get_current_price returned; a holding with
\* no price is dropped and the others are still analysed, so
\* len(holdings_analysis) <= len(portfolio.holdings).
C8_PricedSubsequence ==
    /\ apc = "gather" =>
          LET seen == SelectSeq(SubSeq(portfolio, 1, g - 1), HasPrice)
          IN  /\ Len(holdings_data) = Len(seen)
              /\ \A k \in 1..Len(seen) : Origin(holdings_data[k]) = seen[k]
    /\ apc = "done" =>
          LET ha == analysis.holdings_analysis
          IN  /\ Len(ha) = Len(Priced)
              /\ Len(ha) <= Len(portfolio)
              /\ \A k \in 1..Len(ha) :
                    /\ Origin(ha[k]) = Priced[k]
                    /\ ha[k].current_price = price_of[Priced[k].ticker]
    /\ NoTickerTwice => apc # "raised"

\* C8 witness: analyze returned for a portfolio of two holdings; the first
\* has no price and is dropped, the second is analysed.
C8_Witness ==
    /\ apc = "done"
    /\ Len(portfolio) = 2
    /\ ~HasPrice(portfolio[1])
    /\ Len(analysis.holdings_analysis) = 1
    /\ analysis.holdings_analysis[1].name = 2

\* C9: when at least one holding has a price, total_value is the sum of
\* quantity * current_price over the included holdings, total_cost the sum
\* of avg_cost * quantity over the included holdings only, and
\* profit_loss = total_value - total_cost.
C9_Totals ==
    (apc = "done" /\ Priced # <<>>) =>
        /\ analysis.total_value = PricedValueSum
        /\ analysis.total_cost = PricedCostSum
        /\ ProfitLoss(analysis) = RSub(PricedValueSum, PricedCostSum)

\* C9 witness: a result for a portfolio with one holding included and one
\* excluded, at a loss.
C9_Witness ==
    /\ apc = "done"
    /\ Len(portfolio) = 2
    /\ Len(Priced) = 1
    /\ RLt(ProfitLoss(analysis), R(0))
    /\ RLt(R(0), analysis.total_value)

\* C10: with total_value > 0 each weight_pct is market_value / total_value *
\* 100 and the weights sum to 100; with holdings included and total_value 0
\* every weight_pct is 0 and the analysis is not stopped by a division.
C10_Weights ==
    /\ (apc = "done" /\ Positive(analysis.total_value)) =>
          /\ \A k \in 1..Len(analysis.holdings_analysis) :
                LET h == analysis.holdings_analysis[k]
                IN  /\ h.market_value = RMul(h.quantity, h.current_price)
                    /\ RMul(h.weight_pct, analysis.total_value) = RMul(h.market_value, R(100))
          /\ Sum([k \in 1..Len(analysis.holdings_analysis) |->
                     analysis.holdings_analysis[k].weight_pct]) = R(100)
    /\ (apc = "done" /\ analysis.total_value = R(0)) =>
          \A k \in 1..Len(analysis.holdings_analysis) :
              analysis.holdings_analysis[k].weight_pct = R(0)
    /\ (/\ Priced # <<>>
        /\ \A k \in 1..Len(Priced) : PricedValue(Priced[k]) = R(0)
        /\ NoTickerTwice) => apc # "raised"

\* C10 witness: a result with two holdings of different, fractional weights.
C10_Witness ==
    /\ apc = "done"
    /\ Positive(analysis.total_value)
    /\ Len(analysis.holdings_analysis) = 2
    /\ analysis.holdings_analysis[1].weight_pct[2] # 1
    /\ RLt(analysis.holdings_analysis[1].weight_pct, analysis.holdings_analysis[2].weight_pct)

\* The zero-value case of C10 happens: holdings are included and total_value is 0.
C10_ZeroValueReached ==
    /\ apc = "done"
    /\ Len(analysis.holdings_analysis) = 2
    /\ analysis.total_value = R(0)

\* analyze has come to its end, by a return or by an exception
AnalyzeEnded == apc \in {"done", "raised"}

\* no holding of the portfolio has a price
NothingPriced == \A k \in 1..Len(portfolio) : ~HasPrice(portfolio[k])

\* the nominal cost of the whole portfolio
NominalCost ==
    Sum([k \in 1..Len(portfolio) |->
            RMul(portfolio[k].quantity, portfolio[k].avg_cost)])

\* C11: when no holding has a price (an empty portfolio included), analyze
\* does not raise and requests no historical prices, and it returns a result
\* with no holdings_analysis, total_value 0, every metric 0 and total_cost
\* the nominal cost of all the holdings of the portfolio.
C11_NothingPriced ==
    NothingPriced =>
        /\ apc # "raised"
        /\ requested = {}
        /\ apc = "done" =>
              /\ analysis.holdings_analysis = <<>>
              /\ analysis.total_value = R(0)
              /\ analysis.total_cost = NominalCost
              /\ analysis.total_return_pct = R(0)
              /\ analysis.annualized_return_pct = R(0)
              /\ analysis.volatility_pct = R(0)
              /\ analysis.sharpe_ratio = R(0)
              /\ analysis.max_drawdown_pct = R(0)
              /\ analysis.beta = R(0)
              /\ analysis.alpha_pct = R(0)

\* two holdings without a price, whose tickers and benchmark have a history
C11_Witness ==
    /\ apc = "done"
    /\ Len(portfolio) = 2
    /\ NothingPriced
    /\ portfolio[1].ticker # portfolio[2].ticker
    /\ \A t \in Tickers \cup {Benchmark} : Len(hist_of[t]) = 2
    /\ Positive(analysis.total_cost)
    /\ requested = {}

\* C12: analyze never raises, whatever the portfolio of positive quantities
\* and costs and whatever the market data answers.
C12_NeverRaises == apc # "raised"

\* C14: in every result of analyze annualized_return_pct equals
\* total_return_pct.
C14_AnnualizedIsTotal ==
    apc = "done" => analysis.annualized_return_pct = analysis.total_return_pct

\* a result whose total return is a fraction of a percent other than 0
C14_Witness ==
    /\ apc = "done"
    /\ analysis.holdings_analysis # <<>>
    /\ analysis.total_return_pct[2] # 1
    /\ analysis.annualized_return_pct = analysis.total_return_pct

(***************************************************************************)
(* Independence of the holdings in rebalance.  What rebalance does for one *)
(* holding is written below as a function of the holding's own fields, its *)
(* target weight, total_value, tolerance and tax_rate, and of nothing      *)
(* else.                                                                   *)
(***************************************************************************)
\* the whole shares in the holding's delta, for a price that is not 0
SoloQuantity(h) == RFloor(RDiv(Delta(h), h.current_price))

\* What rebalance does for the holding taken alone: the orders it emits
\* (none or one) and what it adds to total_buy_cost, to
\* total_sell_proceeds and to estimated_tax.
Solo(h) ==
    IF WithinTolerance(h) THEN [orders |-> <<>>, buy |-> R(0), sell |-> R(0), tax |-> R(0)]
    ELSE LET q == SoloQuantity(h)
             value == RMul(R(q), h.current_price)
             buys == RLt(h.market_value, ValueAt(PctOf(h)))
             gain == RSub(h.current_price, h.avg_cost)
         IN  IF q = 0 THEN [orders |-> <<>>, buy |-> R(0), sell |-> R(0), tax |-> R(0)]
             ELSE [orders |->
                      <<[ticker |-> h.ticker, name |-> h.name,
                         action |-> IF buys THEN "BUY" ELSE "SELL",
                         quantity |-> q,
                         current_price |-> h.current_price,
                         estimated_cost |-> IF buys THEN value ELSE RNeg(value)]>>,
                   buy |-> IF buys THEN value ELSE R(0),
                   sell |-> IF buys THEN R(0) ELSE value,
                   tax |-> IF ~buys /\ Positive(gain) /\ Positive(tax_rate)
                           THEN RMul(RMul(R(q), gain), tax_rate)
                           ELSE R(0)]

RECURSIVE SoloUpTo(_)
\* the first n holdings taken alone, one after the other in the order of
\* the input: their orders concatenated, their contributions added up
SoloUpTo(n) ==
    IF n <= 0 THEN [orders |-> <<>>, buy |-> R(0), sell |-> R(0), tax |-> R(0)]
    ELSE LET before == SoloUpTo(n - 1)
             this == Solo(holdings[n])
         IN  [orders |-> before.orders \o this.orders,
              buy |-> RAdd(before.buy, this.buy),
              sell |-> RAdd(before.sell, this.sell),
              tax |-> RAdd(before.tax, this.tax)]

\* C18: the orders emitted for the holdings processed so far are the orders
\* of each holding taken alone, in the order of the input, and the three
\* accumulators are the sums of what each holding taken alone contributes;
\* so the returned result is a function of the holdings one by one, and
\* permuting the input permutes the orders and keeps the totals.
C18_HoldingsIndependent ==
    LET alone == SoloUpTo(i - 1)
    IN  /\ orders = alone.orders
        /\ total_buy = alone.buy
        /\ total_sell = alone.sell
        /\ estimated_tax = alone.tax
        /\ pc = "done" =>
              /\ i = Len(holdings) + 1
              /\ result.orders = alone.orders
              /\ result.total_buy_cost = alone.buy
              /\ result.total_sell_proceeds = alone.sell
              /\ result.net_cost = RSub(alone.buy, alone.sell)
              /\ result.estimated_tax = alone.tax

\* a BUY was emitted before a taxed SELL of another holding
C18_Witness ==
    /\ pc = "done"
    /\ Len(result.orders) = 2
    /\ result.orders[1].action = "BUY"
    /\ result.orders[2].action = "SELL"
    /\ Positive(result.estimated_tax)

(***************************************************************************)
(* Properties of utils/metrics.py, stated over one call of one function:   *)
(* mcall holds the arguments, mpc tells whether the call returned or       *)
(* raised, mret is the value returned.                                     *)
(***************************************************************************)
Returned(fn) == mpc = "returned" /\ mcall.fn = fn

\* C13: total_return raises exactly when initial <= 0 and otherwise returns
\* (final - initial) / initial * 100; annualized_return raises exactly when
\* years <= 0; the error reaches the caller of the function.
C13_RaisesExactly ==
    mpc \in {"returned", "raised"} =>
        /\ mcall.fn = "total_return" =>
              /\ mpc = "raised" <=> ~Positive(mcall.initial)
              /\ mpc = "returned" =>
                    RMul(mret, mcall.initial) =
                        RMul(RSub(mcall.final, mcall.initial), R(100))
        /\ mcall.fn = "annualized_return" =>
              (mpc = "raised" <=> ~Positive(mcall.years))

\* total_return has raised on an initial value of exactly 0
C13_Witness ==
    /\ mpc = "raised"
    /\ mcall.fn = "total_return"
    /\ mcall.initial = R(0)

\* the greatest of the first t prices
PrefixMax(prices, t) ==
    CHOOSE m \in {prices[u] : u \in 1..t} : \A u \in 1..t : RLe(prices[u], m)

\* the fall at t from the highest price seen up to t, in percent
DrawdownAt(prices, t) ==
    RMul(RDiv(RSub(prices[t], PrefixMax(prices, t)), PrefixMax(prices, t)), R(100))

NonDecreasing(prices) ==
    \A t \in 1..(Len(prices) - 1) : RLe(prices[t], prices[t + 1])

\* C15: max_drawdown of a series of positive prices is the least, over t, of
\* (price[t] - max(price[1..t])) / max(price[1..t]) * 100, the maximum
\* taken over the prices up to t only; it is never positive, it is 0 for an
\* empty series and 0 for a series that never falls.
C15_MaxDrawdown ==
    Returned("max_drawdown") =>
        LET prices == mcall.prices
        IN  /\ RLe(mret, R(0))
            /\ prices = <<>> => mret = R(0)
            /\ prices # <<>> =>
                  /\ \E t \in 1..Len(prices) : mret = DrawdownAt(prices, t)
                  /\ \A t \in 1..Len(prices) : RLe(mret, DrawdownAt(prices, t))
            /\ NonDecreasing(prices) => mret = R(0)

\* a fall is followed by a price above every earlier one
C15_Witness ==
    /\ Returned("max_drawdown")
    /\ Len(mcall.prices) = 3
    /\ RLt(mcall.prices[2], mcall.prices[1])
    /\ RLt(mcall.prices[1], mcall.prices[3])
    /\ RLt(mret, R(0))

\* the length both series of a beta call are cut to
CutLen ==
    IF Len(mcall.portfolio_returns) <= Len(mcall.benchmark_returns)
    THEN Len(mcall.portfolio_returns) ELSE Len(mcall.benchmark_returns)

\* C16: beta returns 0 whenever either series is empty or the benchmark
\* series, cut to the common length, has all its values equal, for every
\* common length from 1 up.
C16_ZeroOnDegenerateBenchmark ==
    Returned("beta") =>
        ((\/ mcall.portfolio_returns = <<>>
          \/ mcall.benchmark_returns = <<>>
          \/ \A j, k \in 1..CutLen :
                mcall.benchmark_returns[j] = mcall.benchmark_returns[k])
            => mret = R(0))

\* the sum over the pairs j < k of (x[j] - x[k]) * (y[j] - y[k]), which is
\* n * (n - 1) times the sample covariance of the first n values of x and y
PairSum(x, y, n) ==
    Sum([j \in 1..n |->
        Sum([k \in 1..n |->
            IF j < k THEN RMul(RSub(x[j], x[k]), RSub(y[j], y[k])) ELSE R(0)])])

\* C17: beta of a non-constant series against itself is 1, and beta is the
\* sample covariance of the two series divided by the sample variance of
\* the benchmark, both over the common length, when that variance is not 0.
C17_CovarianceOverVariance ==
    Returned("beta") =>
        LET p == mcall.portfolio_returns
            b == mcall.benchmark_returns
        IN  /\ (p = b /\ \E j, k \in 1..Len(p) : p[j] # p[k]) => mret = R(1)
            /\ (CutLen >= 2 /\ ~RIsZero(PairSum(b, b, CutLen))) =>
                  RMul(mret, PairSum(b, b, CutLen)) = PairSum(p, b, CutLen)

\* series of different lengths whose beta is neither 0 nor 1
C17_Witness ==
    /\ Returned("beta")
    /\ Len(mcall.portfolio_returns) > Len(mcall.benchmark_returns)
    /\ CutLen >= 2
    /\ mret \notin {R(0), R(1), NaN}

(***************************************************************************)
(* Properties of MarketDataProvider, stated over the last call served:     *)
(* last holds what yfinance did during the call and how the call ended.    *)
(***************************************************************************)
IsNone(x) == x = None
SamePrice(x, y) == IF IsNone(x) \/ IsNone(y) THEN IsNone(x) /\ IsNone(y) ELSE x = y

\* the last call got a ticker object
GotTicker == last.ticker # NoTicker
\* the last call read a currentPrice
PricePresent ==
    GotTicker /\ ~last.info.raises /\ "currentPrice" \in DOMAIN last.info.dict
\* the last call failed before it could answer from yfinance
SectorFailed == ~GotTicker \/ last.info.raises
HistoryFailed == ~GotTicker \/ last.hist.raises

LastClose(closes) == IF closes = <<>> THEN None ELSE closes[Len(closes)]

\* get_sector and get_historical_prices of the last call return the default
\* on a failure and the answer of yfinance otherwise
SectorAndHistoryDegrade ==
    /\ last.op = "get_sector" =>
          last.outcome.ret =
              IF SectorFailed \/ "sector" \notin DOMAIN last.info.dict
              THEN Unknown ELSE last.info.dict["sector"]
    /\ last.op = "get_historical_prices" =>
          last.outcome.ret = IF HistoryFailed THEN <<>> ELSE last.hist.closes

\* C19 as stated: no call raises; get_current_price returns the currentPrice
\* if present, else the last close of the 5-day history if that history is
\* not empty, else None, whichever of the constructor, the info access and
\* the history call fails; get_sector degrades to "Unknown" and
\* get_historical_prices to an empty series.
C19_PriceElseHistoryElseNone ==
    ncalls > 0 =>
        /\ ~last.outcome.raised
        /\ last.op = "get_current_price" =>
              SamePrice(last.outcome.ret,
                        IF PricePresent THEN last.info.dict["currentPrice"]
                        ELSE IF HistoryFailed THEN None
                        ELSE LastClose(last.hist.closes))
        /\ SectorAndHistoryDegrade

\* C19, amended: no call raises; get_current_price returns None when the
\* constructor or the info access fails, without turning to the history;
\* otherwise it returns the currentPrice if present, else the last close of
\* the 5-day history if the history call succeeds with a non-empty frame,
\* else None; get_sector degrades to "Unknown" and get_historical_prices
\* to an empty series.
C19_FailureIsAbsent ==
    ncalls > 0 =>
        /\ ~last.outcome.raised
        /\ last.op = "get_current_price" =>
              SamePrice(last.outcome.ret,
                        IF ~GotTicker \/ last.info.raises THEN None
                        ELSE IF PricePresent THEN last.info.dict["currentPrice"]
                        ELSE IF HistoryFailed THEN None
                        ELSE LastClose(last.hist.closes))
        /\ SectorAndHistoryDegrade

\* the info access failed on an object whose history is not empty, and the
\* call returned None
C19_Witness ==
    /\ ncalls > 0
    /\ last.op = "get_current_price"
    /\ GotTicker
    /\ last.info.raises
    /\ ~last.hist.raises
    /\ last.hist.closes # <<>>
    /\ ~last.outcome.raised
    /\ IsNone(last.outcome.ret)

\* C20: once a ticker object has been constructed for a symbol, no call
\* constructs another one for it, every later call for the symbol uses the
\* cached object, and the cache keeps the entry unchanged.
C20_CachedOnce ==
    [][\A s \in DOMAIN cache :
          /\ s \in DOMAIN cache'
          /\ cache'[s] = cache[s]
          /\ constructed'[s] = constructed[s]
          /\ (ncalls' # ncalls /\ last'.symbol = s) =>
                (~last'.built /\ last'.ticker = cache[s])]_vars

\* a cached object has been reused by a different operation than the one
\* that constructed it, after a failed construction for the other symbol
C20_Witness ==
    /\ ncalls = 3
    /\ DOMAIN cache = {"A"}
    /\ constructed["A"] = 1
    /\ constructed["B"] = 0
    /\ last.symbol = "A"
    /\ last.op = "get_sector"
    /\ ~last.built
    /\ last.ticker = cache["A"]

(***************************************************************************)
(* Further properties of rebalance.                                        *)
(***************************************************************************)
\* x >= 0
NonNegative(x) == RLe(R(0), x)

\* C24: for a holding whose market_value is quantity * current_price, with
\* a target weight >= 0 and a total_value >= 0, a SELL order never has a
\* quantity above the quantity held.
C24_SellWithinPosition ==
    \A j \in 1..Len(orders) :
        LET o == orders[j]
            h == holdings[o.name]
        IN  (/\ o.action = "SELL"
             /\ h.market_value = RMul(h.quantity, h.current_price)
             /\ NonNegative(PctOf(h))
             /\ NonNegative(total_value))
            => RLe(R(o.quantity), h.quantity)

\* a SELL of the whole position, and a SELL of a position that holds a
\* fraction of a share more than is sold
C24_Witness ==
    /\ pc = "done"
    /\ Len(orders) = 2
    /\ \A j \in 1..2 :
          /\ orders[j].action = "SELL"
          /\ holdings[orders[j].name].market_value =
                RMul(holdings[orders[j].name].quantity,
                     holdings[orders[j].name].current_price)
    /\ R(orders[1].quantity) = holdings[orders[1].name].quantity
    /\ RLt(R(orders[2].quantity), holdings[orders[2].name].quantity)

\* the gap to the target value that is left once the order is filled
GapAfter(o, h) ==
    IF o.action = "BUY"
    THEN RSub(ValueAt(PctOf(h)),
              RAdd(h.market_value, RMul(R(o.quantity), h.current_price)))
    ELSE RSub(RSub(h.market_value, RMul(R(o.quantity), h.current_price)),
              ValueAt(PctOf(h)))

\* C25: no order overshoots its target: after a BUY the value is still at
\* most the target value, after a SELL still at least the target value,
\* and what is left of the gap is less than the price of one share.
C25_NoOvershoot ==
    \A j \in 1..Len(orders) :
        LET o == orders[j]
            h == holdings[o.name]
        IN  /\ NonNegative(GapAfter(o, h))
            /\ RLt(GapAfter(o, h), h.current_price)

\* a BUY and a SELL that both leave a part of a share of gap
C25_Witness ==
    /\ pc = "done"
    /\ \E j, k \in 1..Len(orders) :
          /\ orders[j].action = "BUY"
          /\ orders[k].action = "SELL"
          /\ Positive(GapAfter(orders[j], holdings[orders[j].name]))
          /\ Positive(GapAfter(orders[k], holdings[orders[k].name]))

\* C28: every holding has at most one order, the orders follow one another
\* as their holdings do in the input, and there are never more orders than
\* holdings.
C28_OneOrderInOrder ==
    /\ \A j \in 1..Len(orders) : orders[j].name \in 1..Len(holdings)
    /\ \A k \in 1..Len(holdings) : Cardinality(OrdersOf(k)) <= 1
    /\ \A j, k \in 1..Len(orders) : j < k => orders[j].name < orders[k].name
    /\ Len(orders) <= Len(holdings)
    /\ pc = "done" => result.orders = orders

\* a BUY then a SELL, one for each of two holdings
C28_Witness ==
    /\ pc = "done"
    /\ Len(holdings) = 2
    /\ Len(result.orders) = 2
    /\ result.orders[1].name = 1
    /\ result.orders[1].action = "BUY"
    /\ result.orders[2].name = 2
    /\ result.orders[2].action = "SELL"

(***************************************************************************)
(* Properties of the rebalance command.                                    *)
(***************************************************************************)
\* C27: rebalance called on the holdings_analysis and total_value of any
\* result of analyze returns a RebalanceResult and never raises.
C27_RebalanceOnAnalysisReturns ==
    cpc \in {"rebalance", "raised", "done"} => pc # "raised"

\* C29: a run given an export path that ends without error has written the
\* export file, with or without orders.
C29_ExportAlwaysWritten ==
    (cpc = "done" /\ cmd.export # None) => cmd.export \in written

(***************************************************************************)
(* The weights of the return and drawdown series.                          *)
(***************************************************************************)
\* the ticker each entry of weights was taken from
WeightTickers ==
    LET kept == SelectSeq(HoldingsAnalysis, LAMBDA h : h.ticker \in AllPrices)
    IN  [j \in 1..Len(kept) |-> kept[j].ticker]

\* C26: for every portfolio, one that lists a ticker twice included, the
\* weights used for the return and drawdown series have exactly one entry
\* per column of the aligned price table, and the j-th weight is the weight
\* of the ticker of the j-th column.
C26_OneWeightPerColumn ==
    (g > Len(portfolio) /\ Columns # <<>>) =>
        /\ Len(Weights) = Len(Columns)
        /\ \A j \in 1..Len(Columns) :
              j <= Len(Weights) => WeightTickers[j] = Columns[j]

\* without a ticker listed twice the weights do match the columns
WeightsMatchDistinctTickers ==
    (g > Len(portfolio) /\ Columns # <<>> /\ NoTickerTwice) =>
        /\ Len(Weights) = Len(Columns)
        /\ \A j \in 1..Len(Columns) : WeightTickers[j] = Columns[j]

(***************************************************************************)
(* The portfolio return series of analyze.                                 *)
(***************************************************************************)
\* the change of ticker t from the close of day r - 1 to the close of day r
PctChangeOf(t, r) ==
    RDiv(RSub(hist_of[t][r], hist_of[t][r - 1]), hist_of[t][r - 1])

\* the weight of a holding from its current valuation, as a fraction
ValuationWeight(d) ==
    RDiv(RMul(d.quantity, price_of[d.ticker]),
         Sum([k \in 1..Len(holdings_data) |->
                 RMul(holdings_data[k].quantity, price_of[holdings_data[k].ticker])]))

RECURSIVE WeightedChangeUpTo(_, _)
\* the sum over the first n included holdings that have a history of
\* weight * change on day r
WeightedChangeUpTo(n, r) ==
    IF n = 0 THEN R(0)
    ELSE LET d == holdings_data[n]
         IN  IF hist_of[d.ticker] = <<>> THEN WeightedChangeUpTo(n - 1, r)
             ELSE RAdd(WeightedChangeUpTo(n - 1, r),
                       RMul(ValuationWeight(d), PctChangeOf(d.ticker, r)))

\* the days every included holding with a history has a close for
AlignedDays ==
    LET with == {k \in 1..Len(holdings_data) : hist_of[holdings_data[k].ticker] # <<>>}
    IN  IF with = {} THEN 0
        ELSE CHOOSE n \in 0..MaxSeries :
                /\ \A k \in with : n <= Len(hist_of[holdings_data[k].ticker])
                /\ \E k \in with : n = Len(hist_of[holdings_data[k].ticker])

\* the return series the statement describes: one return per aligned day
\* after the first
StatedReturns ==
    [r \in 1..(IF AlignedDays >= 2 THEN AlignedDays - 1 ELSE 0) |->
        WeightedChangeUpTo(Len(holdings_data), r + 1)]

\* C22: when analyze returns, the portfolio return of every aligned day is
\* the sum over the included holdings with a history of weight_pct / 100
\* times the change of the ticker, the weight being the one of the current
\* valuation for every day and not rescaled when an included holding has
\* no history; the volatility reported is the one of that series, and a
\* holding without a history is still in holdings_analysis.
C22_WeightedSumOfChanges ==
    (apc = "done" /\ holdings_data # <<>>) =>
        /\ PortfolioReturns = StatedReturns
        /\ analysis.volatility_pct = Times100(Volatility(StatedReturns))
        /\ Len(analysis.holdings_analysis) = Len(holdings_data)
        /\ \A k \in 1..Len(holdings_data) :
              /\ analysis.holdings_analysis[k].ticker = holdings_data[k].ticker
              /\ analysis.holdings_analysis[k].weight_pct =
                    RMul(ValuationWeight(holdings_data[k]), R(100))

\* two holdings of different tickers, both priced, the first without a
\* history and the second with MaxSeries closes: two or more returns, none
\* of them rescaled
C22_Witness ==
    /\ apc = "done"
    /\ Len(holdings_data) = 2
    /\ hist_of[holdings_data[1].ticker] = <<>>
    /\ Len(hist_of[holdings_data[2].ticker]) = MaxSeries
    /\ Len(StatedReturns) = MaxSeries - 1
    /\ \A r \in 1..Len(StatedReturns) : ~RIsZero(StatedReturns[r])
    /\ Len(analysis.holdings_analysis) = 2
    /\ Len(analysis.volatility_pct) = 3

(***************************************************************************)
(* The metric fields of an AnalysisResult.                                 *)
(***************************************************************************)
\* the value is a number, not nan
Defined(x) == x # NaN

\* C30: volatility_pct, sharpe_ratio, beta, max_drawdown_pct and alpha_pct
\* of every AnalysisResult are defined numbers, for histories of every
\* length, a history of two closes (one return) included.
C30_MetricsDefined ==
    apc = "done" =>
        /\ Defined(analysis.volatility_pct)
        /\ Defined(analysis.sharpe_ratio)
        /\ Defined(analysis.beta)
        /\ Defined(analysis.max_drawdown_pct)
        /\ Defined(analysis.alpha_pct)

\* the series with a single return: the portfolio's, or the portfolio's
\* cut to a benchmark of a single return
SingleReturn ==
    \/ Len(PortfolioReturns) = 1
    \/ Len(PortfolioReturns) >= 1 /\ Len(BenchmarkReturns) = 1

\* away from a single return the five fields are defined
MetricsDefinedAwayFromSingleReturn ==
    (apc = "done" /\ holdings_data # <<>> /\ ~SingleReturn) =>
        /\ Defined(analysis.volatility_pct)
        /\ Defined(analysis.sharpe_ratio)
        /\ Defined(analysis.beta)
        /\ Defined(analysis.max_drawdown_pct)
        /\ Defined(analysis.alpha_pct)

(***************************************************************************)
(* generate_insights.                                                      *)
(***************************************************************************)
\* a step of the try block fails
SomethingFails ==
    \/ icall.construct_raises
    \/ icall.prompt_raises
    \/ icall.create_raises
    \/ Len(icall.content) = 0
    \/ ~icall.content[1].has_text

\* C21: generate_insights never raises.  With an api_key of None or "" it
\* returns the fallback message without building a client or calling the
\* API; when building the client, the call or reading the response fails
\* it returns the fallback message too; otherwise it returns the text of
\* the first content block.
C21_FallbackOrFirstText ==
    /\ ipc \in {"idle", "call", "done"}
    /\ ipc = "done" =>
          IF icall.api_key \in {None, ""}
          THEN insights = FallbackMessage /\ clients = 0 /\ api_calls = 0
          ELSE IF SomethingFails
          THEN insights = FallbackMessage
          ELSE insights = icall.content[1].text /\ clients = 1 /\ api_calls = 1

\* the empty key: the fallback, and no client
C21_Witness ==
    /\ ipc = "done"
    /\ icall.api_key = ""
    /\ ~icall.construct_raises
    /\ insights = FallbackMessage
    /\ clients = 0

\* the fallback after a failed call, and the first text of two
C21_Answered ==
    /\ ipc = "done"
    /\ icall.api_key = "sk-key"
    /\ Len(icall.content) = 2
    /\ insights = "first"

(***************************************************************************)
(* validate_dataframe and load_portfolio.                                  *)
(***************************************************************************)
\* the cell holds a ticker of one of the three forms, spaces around it aside
ValidTicker(cell) ==
    LET s == Strip(Str(cell))
    IN  UsTicker(s) \/ KrTicker(s) \/ IndexTicker(s)

\* the cell holds a number above zero
PositiveNumber(cell) ==
    /\ cell.kind # "nan"
    /\ ~FloatRaises(cell)
    /\ RLt(R(0), Float(cell))

\* the fields of row k that are not valid
InvalidFields(k) ==
    (IF ValidTicker(TickerOf(df.rows[k])) THEN {} ELSE {"ticker"})
    \cup (IF PositiveNumber(QuantityOf(df.rows[k])) THEN {} ELSE {"quantity"})
    \cup (IF PositiveNumber(AvgCostOf(df.rows[k])) THEN {} ELSE {"avg_cost"})

AllInvalidFields ==
    {<<k, f>> : k \in 1..Len(df.rows), f \in {"ticker", "quantity", "avg_cost"}}
        \cap {p \in (1..Len(df.rows)) \X {"ticker", "quantity", "avg_cost"} :
                 p[2] \in InvalidFields(p[1])}

ReportedFields ==
    {<<lerr.errors[j].row, lerr.errors[j].field>> : j \in 1..Len(lerr.errors)}

\* the frame has the four columns, a row, and valid rows only
FrameValid ==
    /\ Missing = {}
    /\ Len(df.rows) > 0
    /\ \A k \in 1..Len(df.rows) : InvalidFields(k) = {}

\* C23: validate_dataframe returns a frame, and load_portfolio a Portfolio,
\* only when the four required columns are present (whatever their case
\* and padding), the frame has a row, and every row has a valid ticker, a
\* positive quantity and a positive avg_cost; otherwise it raises, and for
\* invalid rows the error names every invalid field with its 1-based row.
C23_FrameOnlyWhenValid ==
    /\ lpc = "done" => FrameValid
    /\ lpc = "raised" =>
          /\ ~FrameValid
          /\ lerr.message = "rows" => ReportedFields = AllInvalidFields

\* no quantity and no avg_cost cell of the frame is blank
NoBlankNumber ==
    Missing = {} =>
        \A k \in 1..Len(df.rows) :
            /\ QuantityOf(df.rows[k]).kind # "nan"
            /\ AvgCostOf(df.rows[k]).kind # "nan"

\* with no blank quantity or avg_cost the statement holds
FrameOnlyWhenValidWithoutBlanks ==
    NoBlankNumber =>
        /\ lpc = "done" => FrameValid
        /\ lpc = "raised" =>
              /\ ~FrameValid
              /\ lerr.message = "rows" => ReportedFields = AllInvalidFields

====
